---- MODULE Spec2Model ----
(***************************************************************************)
(* Template synchronisation of claude-yolo (src/src/claude_yolo/update.py). *)
(*                                                                         *)
(* The file system is modelled as trees: a tree maps every path of a small *)
(* path universe to a node (absent, directory, or file with content and    *)
(* permission bits).  `tmpl` is the packaged templates directory, `inst`   *)
(* the project's .claude-yolo directory, `backups` the sibling directories *)
(* .claude-yolo.backup.<timestamp>, indexed by the clock second that names *)
(* them.  Every invocation of update_templates is a run r \in Runs with    *)
(* its own locals (files, custom_files, backup_dir, updated_count, the     *)
(* loop index) and its position pc[r].                                     *)
(***************************************************************************)
EXTENDS Integers, Sequences, FiniteSets, TLC

\* ------------------------------------------------------------- bounds
\* Number of invocations of update_templates in one behaviour.
MaxRuns == 2
\* Last second of the wall clock (seconds 0..MaxClock).
MaxClock == 1
\* At most MaxFiles file paths are populated (in the template, the instance
\* or both) in an initial state.
MaxFiles == 2
\* Number of invocations of init_project in one behaviour.
MaxInitCalls == 2
\* Largest number of template files where runs of update_templates overlap.
MaxSharedFiles == 1

\* ------------------------------------------------------------- policy table
NEVER_UPDATE == {".env", ".env.local"}

WARN_BEFORE_UPDATE == {"Dockerfile", "docker-compose.yml"}

\* ------------------------------------------------------------- paths
\* A path is the sequence of its segments, relative to the root of its tree.
Root == <<>>

FilePaths ==
  { <<"Dockerfile">>, <<"docker-compose.yml">>, <<".env.example">>, <<".env">>,
    <<"hooks", "pre-build.sh">>, <<"hooks", "post-build.sh">>,
    <<"hooks", ".env.local">> }

DirPaths == { <<"hooks">> }

AllPaths == {Root} \cup DirPaths \cup FilePaths

\* Path.name: the last path segment.
Name(p) == p[Len(p)]

\* Path.parent
Parent(p) == SubSeq(p, 1, Len(p) - 1)

\* The proper ancestors of p, the root included.
Ancestors(p) == { SubSeq(p, 1, k) : k \in 0..(Len(p) - 1) }

\* ------------------------------------------------------------- nodes and trees
ModePlain == "rw-r--r--"
ModeExec == "rwxr-xr-x"

Absent == [kind |-> "absent", content |-> <<>>, mode |-> ""]
Dir == [kind |-> "dir", content |-> <<>>, mode |-> ""]
File(c, m) == [kind |-> "file", content |-> c, mode |-> m]

\* File contents: byte strings of length at most one over two byte values.
Bytes == {1, 2}
Contents == {<<>>} \cup { <<b>> : b \in Bytes }

AbsentTree == [p \in AllPaths |-> Absent]

\* Every entry that is present lies in a directory.
WellFormed(t) ==
  \A p \in AllPaths \ {Root} : t[p].kind # "absent" => t[Parent(p)].kind = "dir"

\* Path.exists(): in a well-formed tree, a path below a plain file or below a
\* missing directory is absent (stat fails with ENOTDIR / ENOENT).
exists(t, p) == t[p].kind # "absent"

is_dir(t, p) == t[p].kind = "dir"

is_file(t, p) == t[p].kind = "file"

Files(t) == { p \in AllPaths : is_file(t, p) }

\* Order in which rglob("*") yields the entries of the template tree
\* (a directory before its entries).
ScanOrder ==
  << <<"Dockerfile">>, <<"docker-compose.yml">>, <<".env.example">>, <<".env">>,
     <<"hooks">>, <<"hooks", "pre-build.sh">>, <<"hooks", "post-build.sh">>,
     <<"hooks", ".env.local">> >>

\* templates_dir.rglob("*")
rglob(t) == SelectSeq(ScanOrder, LAMBDA p : exists(t, p))

Range(s) == { s[i] : i \in 1..Len(s) }

\* ------------------------------------------------------------- categorize_files
EmptyResult ==
  [new |-> <<>>, changed |-> <<>>, unchanged |-> <<>>, never_update |-> <<>>,
   raised |-> FALSE]

\* Variants of categorize_entry, each changed as a slip in lines 57-78 would
\* change it; the properties below are checked against them as well.
\* The NEVER_UPDATE test (lines 65-68) is missing.
categorize_entry_no_policy(result, templates, claude, rel_path) ==
  IF is_dir(templates, rel_path) THEN result
  ELSE IF ~exists(claude, rel_path)
    THEN [result EXCEPT !.new = Append(@, rel_path)]
  ELSE IF is_dir(claude, rel_path)
    THEN [result EXCEPT !.raised = TRUE]
  ELSE IF templates[rel_path].content # claude[rel_path].content
    THEN [result EXCEPT !.changed = Append(@, rel_path)]
  ELSE [result EXCEPT !.unchanged = Append(@, rel_path)]

\* The `continue` of line 68 is missing: a never_update path is classified by
\* content as well.
categorize_entry_no_continue(result, templates, claude, rel_path) ==
  IF Name(rel_path) \in NEVER_UPDATE /\ ~is_dir(templates, rel_path)
    THEN categorize_entry_no_policy(
           [result EXCEPT !.never_update = Append(@, rel_path)],
           templates, claude, rel_path)
    ELSE categorize_entry_no_policy(result, templates, claude, rel_path)

\* The policy is looked up by the whole relative path, not by rel_path.name.
categorize_entry_by_path(result, templates, claude, rel_path) ==
  IF Len(rel_path) = 1 /\ Name(rel_path) \in NEVER_UPDATE /\ ~is_dir(templates, rel_path)
    THEN [result EXCEPT !.never_update = Append(@, rel_path)]
    ELSE categorize_entry_no_policy(result, templates, claude, rel_path)

\* An empty instance file is taken for a missing one.
categorize_entry_empty_is_missing(result, templates, claude, rel_path) ==
  IF is_dir(templates, rel_path) THEN result
  ELSE IF Name(rel_path) \in NEVER_UPDATE
    THEN [result EXCEPT !.never_update = Append(@, rel_path)]
  ELSE IF ~exists(claude, rel_path) \/ claude[rel_path] = File(<<>>, claude[rel_path].mode)
    THEN [result EXCEPT !.new = Append(@, rel_path)]
  ELSE IF is_dir(claude, rel_path)
    THEN [result EXCEPT !.raised = TRUE]
  ELSE IF templates[rel_path].content # claude[rel_path].content
    THEN [result EXCEPT !.changed = Append(@, rel_path)]
  ELSE [result EXCEPT !.unchanged = Append(@, rel_path)]

\* One iteration of the loop of categorize_files for the entry rel_path.
\* read_bytes() of a directory raises IsADirectoryError, which leaves the loop
\* and the function (raised).
categorize_entry(result, templates, claude, rel_path) ==
  IF is_dir(templates, rel_path) THEN result
  ELSE IF Name(rel_path) \in NEVER_UPDATE
    THEN [result EXCEPT !.never_update = Append(@, rel_path)]
  ELSE IF ~exists(claude, rel_path)
    THEN [result EXCEPT !.new = Append(@, rel_path)]
  ELSE IF is_dir(claude, rel_path)
    THEN [result EXCEPT !.raised = TRUE]
  ELSE IF templates[rel_path].content # claude[rel_path].content
    THEN [result EXCEPT !.changed = Append(@, rel_path)]
  ELSE [result EXCEPT !.unchanged = Append(@, rel_path)]

RECURSIVE categorize_loop(_, _, _, _)
categorize_loop(entries, result, templates, claude) ==
  IF entries = <<>> \/ result.raised THEN result
  ELSE categorize_loop(Tail(entries),
                       categorize_entry(result, templates, claude, Head(entries)),
                       templates, claude)

\* The result of a call that raised: there is none.
NoResult == [EmptyResult EXCEPT !.raised = TRUE]

categorize_files(templates, claude) ==
  LET result == categorize_loop(rglob(templates), EmptyResult, templates, claude)
  IN IF result.raised THEN NoResult ELSE result

\* files["new"] + files["changed"]
Plan(f) == f.new \o f.changed

\* custom_files
CustomFiles(f) == SelectSeq(Plan(f), LAMBDA p : Name(p) \in WARN_BEFORE_UPDATE)

\* ------------------------------------------------------------- update_file
\* target_file.parent.mkdir(parents=True, exist_ok=True): raises when the
\* parent, or an ancestor of it, is a plain file.
MkdirRaises(claude, p) == \E a \in Ancestors(p) : is_file(claude, a)

\* The tree after a successful mkdir(parents=True, exist_ok=True).
MkdirParents(claude, p) ==
  [q \in AllPaths |->
     IF q \in Ancestors(p) /\ ~exists(claude, q) THEN Dir ELSE claude[q]]

\* The permission bits of a file that open(dst, "wb") creates or truncates.
ModeAfterOpen(claude, p) == IF is_file(claude, p) THEN claude[p].mode ELSE ModePlain

\* The environment's part in one call of update_file:
\*   "ok"          every system call succeeds;
\*   "mkdir_fail"  creating a missing parent directory fails (where the parent
\*                 exists, the failure is that of the next call, open);
\*   "open_fail"   opening the target for writing fails (e.g. permission);
\*   "write_fail"  the write fails after the target was opened and truncated
\*                 (e.g. disk full): k bytes of the template were written.
CopyOutcomes == {"ok", "mkdir_fail", "open_fail", "write_fail"}

\* Number of bytes a failed write leaves in the target: less than the length
\* of a non-empty content.
PartialLengths == { Len(c) - 1 : c \in Contents \ {<<>>} }

\* A variant of update_file that opens the target for appending: the template's
\* bytes follow those the target held.
update_file_append(templates, claude, p, outcome, k) ==
  IF MkdirRaises(claude, p) THEN [tree |-> claude, ok |-> FALSE]
  ELSE IF outcome = "mkdir_fail" /\ ~is_dir(claude, Parent(p))
    THEN [tree |-> claude, ok |-> FALSE]
  ELSE LET made == MkdirParents(claude, p) IN
    IF outcome \in {"mkdir_fail", "open_fail"}
      THEN [tree |-> made, ok |-> FALSE]
    ELSE IF outcome = "write_fail" /\ k < Len(templates[p].content)
      THEN [tree |-> [made EXCEPT ![p] =
                        File(claude[p].content \o SubSeq(templates[p].content, 1, k),
                             ModeAfterOpen(claude, p))],
            ok |-> FALSE]
    ELSE [tree |-> [made EXCEPT ![p] =
                      File(claude[p].content \o templates[p].content, templates[p].mode)],
          ok |-> TRUE]

\* A variant of update_file that clears the way for the parent directories: a
\* plain file at the place of a parent directory is replaced by the directory.
update_file_replace_blocker(templates, claude, p, outcome, k) ==
  IF MkdirRaises(claude, p)
    THEN [tree |-> [q \in AllPaths |->
                      IF q \in Ancestors(p) THEN Dir
                      ELSE IF q = p THEN templates[p]
                      ELSE claude[q]],
          ok |-> TRUE]
  ELSE IF outcome = "mkdir_fail" /\ ~is_dir(claude, Parent(p))
    THEN [tree |-> claude, ok |-> FALSE]
  ELSE LET made == MkdirParents(claude, p) IN
    IF outcome \in {"mkdir_fail", "open_fail"}
      THEN [tree |-> made, ok |-> FALSE]
    ELSE IF is_dir(claude, p)
      THEN [tree |-> made, ok |-> outcome = "ok"]
    ELSE IF outcome = "write_fail" /\ k < Len(templates[p].content)
      THEN [tree |-> [made EXCEPT ![p] =
                        File(SubSeq(templates[p].content, 1, k),
                             ModeAfterOpen(claude, p))],
            ok |-> FALSE]
    ELSE [tree |-> [made EXCEPT ![p] = templates[p]], ok |-> TRUE]

\* A variant of update_file that copies with shutil.copyfile: the bytes only,
\* the target keeps its permission bits or gets those of a new file.
update_file_copyfile(templates, claude, p, outcome, k) ==
  IF MkdirRaises(claude, p) THEN [tree |-> claude, ok |-> FALSE]
  ELSE IF outcome = "mkdir_fail" /\ ~is_dir(claude, Parent(p))
    THEN [tree |-> claude, ok |-> FALSE]
  ELSE LET made == MkdirParents(claude, p) IN
    IF outcome \in {"mkdir_fail", "open_fail"}
      THEN [tree |-> made, ok |-> FALSE]
    ELSE IF is_dir(claude, p)
      THEN [tree |-> made, ok |-> outcome = "ok"]
    ELSE IF outcome = "write_fail" /\ k < Len(templates[p].content)
      THEN [tree |-> [made EXCEPT ![p] =
                        File(SubSeq(templates[p].content, 1, k),
                             ModeAfterOpen(claude, p))],
            ok |-> FALSE]
    ELSE [tree |-> [made EXCEPT ![p] =
                      File(templates[p].content, ModeAfterOpen(claude, p))],
          ok |-> TRUE]

\* update_file(template_file, target_file): the instance tree afterwards and
\* whether the call returned (ok) or raised.  Onto a directory, copy2 copies
\* into it, to a path outside AllPaths: the tree keeps the directory
\* (TargetIsNoDirectory below: no run gets there).
update_file(templates, claude, p, outcome, k) ==
  IF MkdirRaises(claude, p) THEN [tree |-> claude, ok |-> FALSE]
  ELSE IF outcome = "mkdir_fail" /\ ~is_dir(claude, Parent(p))
    THEN [tree |-> claude, ok |-> FALSE]
  ELSE LET made == MkdirParents(claude, p) IN
    IF outcome \in {"mkdir_fail", "open_fail"}
      THEN [tree |-> made, ok |-> FALSE]
    ELSE IF is_dir(claude, p)
      THEN [tree |-> made, ok |-> outcome = "ok"]
    ELSE IF outcome = "write_fail" /\ k < Len(templates[p].content)
      THEN [tree |-> [made EXCEPT ![p] =
                        File(SubSeq(templates[p].content, 1, k),
                             ModeAfterOpen(claude, p))],
            ok |-> FALSE]
    ELSE [tree |-> [made EXCEPT ![p] = templates[p]], ok |-> TRUE]

\* ------------------------------------------------------------- create_backup
\* The environment's part in one call of create_backup:
\*   "ok"         copytree copies the whole tree;
\*   "mkdir_fail" the backup directory cannot be created;
\*   "copy_fail"  the copy of one file fails: copytree copies the rest and
\*                raises at the end.
BackupOutcomes == {"ok", "mkdir_fail", "copy_fail"}

\* shutil.copytree(claude_dir, backup_dir) raises before it copies anything:
\* the source is no directory, or the target name is taken.
CopytreeRefuses(claude, existing) == ~is_dir(claude, Root) \/ exists(existing, Root)

\* A variant of create_backup that ignores the errors of the single copies.
create_backup_ignore_errors(claude, existing, outcome, lost) ==
  IF CopytreeRefuses(claude, existing) THEN [dir |-> existing, ok |-> FALSE]
  ELSE IF outcome = "mkdir_fail" THEN [dir |-> existing, ok |-> FALSE]
  ELSE IF outcome = "copy_fail" /\ is_file(claude, lost)
    THEN [dir |-> [claude EXCEPT ![lost] = Absent], ok |-> TRUE]
  ELSE [dir |-> claude, ok |-> TRUE]

\* A variant of create_backup that calls copytree with dirs_exist_ok=True: the
\* copy goes into a directory of the same name that is there already.
create_backup_dirs_exist_ok(claude, existing, outcome, lost) ==
  IF ~is_dir(claude, Root) THEN [dir |-> existing, ok |-> FALSE]
  ELSE IF outcome = "mkdir_fail" THEN [dir |-> existing, ok |-> FALSE]
  ELSE LET merged == [p \in AllPaths |-> IF exists(claude, p) THEN claude[p] ELSE existing[p]]
       IN IF outcome = "copy_fail" /\ is_file(claude, lost)
            THEN [dir |-> [merged EXCEPT ![lost] = existing[lost]], ok |-> FALSE]
            ELSE [dir |-> merged, ok |-> TRUE]

\* create_backup(claude_dir): the directory .claude-yolo.backup.<timestamp>
\* afterwards and whether the call returned (ok) or raised.  `existing` is
\* the directory of that name before the call, `lost` the file whose copy
\* fails under "copy_fail".
create_backup(claude, existing, outcome, lost) ==
  IF CopytreeRefuses(claude, existing) THEN [dir |-> existing, ok |-> FALSE]
  ELSE IF outcome = "mkdir_fail" THEN [dir |-> existing, ok |-> FALSE]
  ELSE IF outcome = "copy_fail" /\ is_file(claude, lost)
    THEN [dir |-> [claude EXCEPT ![lost] = Absent], ok |-> FALSE]
  ELSE [dir |-> claude, ok |-> TRUE]

\* ------------------------------------------------------------- state
VARIABLES
  tmpl,           \* the templates directory of the installed package
  inst,           \* the project's .claude-yolo directory
  backups,        \* backups[t]: the sibling directory .claude-yolo.backup.<t>
  now,            \* the wall clock, in seconds
  pc,             \* pc[r]: position of run r in update_templates
  status,         \* status[r]: how run r ended
  files,          \* files[r]: the result of categorize_files
  custom_files,   \* custom_files[r]
  total_updates,  \* total_updates[r]: the count shown in the confirmation
  asked,          \* asked[r]: number of confirmations requested
  answer,         \* answer[r]: the user's answer to the confirmation
  backup_dir,     \* backup_dir[r]: the clock second naming the run's backup, or NoBackup
  idx,            \* idx[r]: index into files["new"] + files["changed"] of the apply loop
  updated_count,  \* updated_count[r]
  applied,        \* applied[r]: paths reported as updated
  failed,         \* failed[r]: paths reported as failed
  report,         \* report[r]: what run r printed as its error and as its final report
  pre,            \* pre[r]: the instance tree when run r started
  preBackups,     \* preBackups[r]: the backup directories when run r started
  snap,           \* snap[r]: the instance tree when run r called create_backup
  written         \* written[r]: paths that run r created, overwrote or truncated

world == <<tmpl, inst, backups, now>>
locals == <<pc, status, files, custom_files, total_updates, asked, answer, backup_dir,
            idx, updated_count, applied, failed, report>>
history == <<pre, preBackups, snap, written>>
vars == <<world, locals, history>>

Runs == 1..MaxRuns
Seconds == 0..MaxClock
NoBackup == -1

\* What a run has printed before it printed anything of the kind: no error
\* message, no final report.
NoReport == [error |-> "none", complete |-> FALSE, updated |-> 0, review |-> <<>>]

\* ------------------------------------------------------------- project directories
\* init.py, lines 19-23.
MINIMAL_EXCLUDE == {"tailscale", "openvpn", "cloudflared"}

\* init.py, lines 146-151.
log_subdirs == {"commands", "claude", "git", "safety"}

\* The top-level entries of the packaged templates directory that the tests
\* name: files and directories that every package has, and the VPN and proxy
\* directories.
CoreFiles == {"Dockerfile", "docker-compose.yml", ".env.example"}
CoreDirs == {"config", "scripts", "hooks"}
TemplateNames == CoreFiles \cup CoreDirs \cup MINIMAL_EXCLUDE

\* The entry that stands for what a directory of the templates holds.
ChildName(d) == IF d = "hooks" THEN "pre-build.sh" ELSE "content"

\* The entries that init_project makes in .claude-yolo besides the templates,
\* and a file of the user's.
MadeNames == {"logs", "home", ".env", ".gitignore"}
UserNames == {"MARKER"}

\* The paths below a project directory: .claude-yolo with its entries, and
\* logs, .env and .gitignore of the project directory itself.
claude_dir == <<".claude-yolo">>

RelPaths ==
  {claude_dir}
    \cup { claude_dir \o <<n>> : n \in TemplateNames \cup MadeNames \cup UserNames }
    \cup { claude_dir \o <<d, ChildName(d)>> : d \in CoreDirs \cup MINIMAL_EXCLUDE }
    \cup { claude_dir \o <<"logs", d>> : d \in log_subdirs }
    \cup {<<"logs">>, <<".env">>, <<".gitignore">>}
    \cup { <<"logs", d>> : d \in log_subdirs }

\* The project directories: a directory and a subdirectory of it.
ProjectDirs == {<<>>, <<"subdir">>}

ProjectPaths == { d \o rel : d \in ProjectDirs, rel \in RelPaths }

\* p is q or lies below q.
Below(p, q) == Len(p) >= Len(q) /\ SubSeq(p, 1, Len(q)) = q

Kinds == {"absent", "file", "dir"}

VARIABLES
  fs,             \* fs[p]: the kind of entry at path p of the project directories
  package,        \* the packaged templates directory: exists, entries, listing
  init_calls,     \* number of invocations of init_project so far
  init_args,      \* project_dir and minimal of the current invocation
  init_pc,        \* position of the current invocation in init_project
  init_status,    \* how the last invocation ended
  init_answer,    \* the user's answer to "Overwrite existing configuration?"
  init_idx,       \* index into the listing of the templates directory
  init_pre        \* fs when the current invocation started

initvars == <<fs, package, init_calls, init_args, init_pc, init_status, init_answer,
              init_idx, init_pre>>

\* No project directory holds anything, and init_project has not been called.
NoInitYet ==
  /\ init_calls = 0
  /\ init_args = [project_dir |-> <<>>, minimal |-> FALSE]
  /\ init_pc = "idle"
  /\ init_status = "none"
  /\ init_answer = "none"
  /\ init_idx = 0
  /\ init_pre = fs

InitIdle ==
  /\ fs = [p \in ProjectPaths |-> "absent"]
  /\ package = [exists |-> FALSE, entries |-> [n \in TemplateNames |-> "absent"],
                listing |-> <<>>]
  /\ NoInitYet

VARIABLES
  ord_start,      \* the instance tree when the apply phase starts
  ord_env,        \* ord_env[p]: the environment's part in the copy of path p
  ord_stage,      \* ord_stage[p]: "todo", "made" (parents made) or "done"
  ord_failed      \* paths whose copy raised

ordvars == <<ord_start, ord_env, ord_stage, ord_failed>>

\* No apply phase with free order has been set up.
OrdIdle ==
  /\ ord_start = AbsentTree
  /\ ord_env = <<>>
  /\ ord_stage = <<>>
  /\ ord_failed = {}

VARIABLES
  co_pc,          \* position of the invocation of checkout_repo
  co_args,        \* force, no_interactive and auto_start of the invocation
  co_target,      \* what lies at target_dir: nothing, an older entry, or the clone
  co_repo_config, \* the repository to clone carries a .claude-yolo directory
  co_log,         \* the prompts shown and the commands and functions called, in order
  co_status       \* how the invocation ended

covars == <<co_pc, co_args, co_target, co_repo_config, co_log, co_status>>

\* checkout_repo has not been called, and nothing lies at target_dir.
CheckoutIdle ==
  /\ co_pc = "idle"
  /\ co_args = [force |-> FALSE, no_interactive |-> FALSE, auto_start |-> FALSE,
                found |-> "absent"]
  /\ co_target = "absent"
  /\ co_repo_config = FALSE
  /\ co_log = <<>>
  /\ co_status = "none"

VARIABLES
  ct_pc,          \* position of the invocation of run_container: idle, a stage, or done
  ct_args,        \* build_first and mcp of the invocation
  ct_project,     \* what the project directory holds: .claude-yolo, compose files, hooks
  ct_log,         \* the subprocesses started, their exit codes, and the warnings, in order
  ct_status       \* how the invocation ended: none, return, raised, or an exit code

ctvars == <<ct_pc, ct_args, ct_project, ct_log, ct_status>>

\* run_container has not been called, in a directory that holds nothing.
ContainerIdle ==
  /\ ct_pc = "idle"
  /\ ct_args = [build_first |-> FALSE, mcp |-> FALSE]
  /\ ct_project = [initialized |-> FALSE, compose |-> FALSE, mcp_compose |-> FALSE,
                   hooks |-> {}]
  /\ ct_log = <<>>
  /\ ct_status = [how |-> "none", code |-> 0]

\* The variables of the other commands, and their values where only update
\* is looked at.
others == <<initvars, ordvars, covars, ctvars>>

OthersIdle == InitIdle /\ OrdIdle /\ CheckoutIdle /\ ContainerIdle

\* ------------------------------------------------------------- initial states
\* Permission bits of the packaged templates: hook scripts are executable.
TemplateMode(p) ==
  IF p \in {<<"hooks", "pre-build.sh">>, <<"hooks", "post-build.sh">>}
    THEN ModeExec ELSE ModePlain

TemplateChoices == {Absent} \cup { File(c, ModePlain) : c \in {<<>>, <<1>>} }

InstanceChoices == {Absent, Dir} \cup { File(c, ModePlain) : c \in Contents }

\* The tree with the given root, the given node at hooks, and the given files.
MakeTree(root, hooks, S, nodes) ==
  [p \in AllPaths |->
     IF p = Root THEN root
     ELSE IF p = <<"hooks">> THEN hooks
     ELSE IF p \in S THEN nodes[p]
     ELSE Absent]

TemplateTree(root, hooks, S, nodes) ==
  MakeTree(root, hooks, S,
           [p \in S |-> IF nodes[p].kind = "file"
                          THEN File(nodes[p].content, TemplateMode(p))
                          ELSE nodes[p]])

\* The paths of S below hooks.
InHooks(S) == { p \in S : Parent(p) = <<"hooks">> }

\* No backup has been made and no run of update_templates has started.
NoRunYet ==
  /\ backups = [t \in Seconds |-> AbsentTree]
  /\ now = 0
  /\ pc = [r \in Runs |-> "idle"]
  /\ status = [r \in Runs |-> "none"]
  /\ files = [r \in Runs |-> EmptyResult]
  /\ custom_files = [r \in Runs |-> <<>>]
  /\ total_updates = [r \in Runs |-> 0]
  /\ asked = [r \in Runs |-> 0]
  /\ answer = [r \in Runs |-> "none"]
  /\ backup_dir = [r \in Runs |-> NoBackup]
  /\ idx = [r \in Runs |-> 0]
  /\ updated_count = [r \in Runs |-> 0]
  /\ applied = [r \in Runs |-> {}]
  /\ failed = [r \in Runs |-> {}]
  /\ report = [r \in Runs |-> NoReport]
  /\ pre = [r \in Runs |-> AbsentTree]
  /\ preBackups = [r \in Runs |-> backups]
  /\ snap = [r \in Runs |-> AbsentTree]
  /\ written = [r \in Runs |-> {}]

\* Initial trees: the files of a set S of at most MaxFiles paths are chosen
\* freely; a root is missing (or, for the instance, a plain file) only when
\* nothing lies below it; hooks exists only when S has a path below it, as a
\* directory or (in the instance) as a plain file.  Contents are chosen up to
\* renaming of bytes: byte 2 occurs only in an instance file whose template
\* file holds byte 1, and an entry of the instance alone is a file of byte 1.
InitialTrees ==
  \E S \in SUBSET FilePaths :
       /\ Cardinality(S) <= MaxFiles
       /\ \E tn \in [S -> TemplateChoices], cn \in [S -> InstanceChoices],
             troot \in {Absent, Dir}, thooks \in {Absent, Dir},
             croot \in {Absent, Dir, File(<<2>>, ModePlain)},
             chooks \in {Absent, Dir, File(<<2>>, ModePlain)} :
            /\ \A p \in S : tn[p] = Absent => cn[p] = File(<<1>>, ModePlain)
            /\ \A p \in S : cn[p] = File(<<2>>, ModePlain) => tn[p].content = <<1>>
            /\ thooks = Dir <=> \E p \in InHooks(S) : tn[p] # Absent
            /\ chooks # Absent => InHooks(S) # {}
            /\ tmpl = TemplateTree(troot, thooks, S, tn)
            /\ inst = MakeTree(croot, chooks, S, cn)
            /\ WellFormed(tmpl)
            /\ WellFormed(inst)

Init ==
  /\ InitialTrees
  /\ NoRunYet
  /\ OthersIdle

\* ------------------------------------------------------------- update_templates
Ended(r, how) ==
  /\ pc' = [pc EXCEPT ![r] = "done"]
  /\ status' = [status EXCEPT ![r] = how]

\* A variant of PreRunError that looks at the templates directory first.
PreRunErrorTemplatesFirst(templates, claude) ==
  IF ~exists(templates, Root) THEN "templates_not_found"
  ELSE IF ~exists(claude, Root) THEN "not_initialized"
  ELSE "none"

\* Lines 109-115: check_initialized, then the templates directory check; the
\* error message printed before typer.Exit(1), or "none".
PreRunError(templates, claude) ==
  IF ~exists(claude, Root) THEN "not_initialized"
  ELSE IF ~exists(templates, Root) THEN "templates_not_found"
  ELSE "none"

\* A variant of Begin without the "up to date" return of lines 121-123: a run
\* with nothing to apply goes on to the confirmation prompt.
BeginNoEarlyReturn(r) ==
  /\ pc[r] = "idle"
  /\ \A q \in Runs : q < r => pc[q] # "idle"
  /\ pre' = [pre EXCEPT ![r] = inst]
  /\ preBackups' = [preBackups EXCEPT ![r] = backups]
  /\ report' = [report EXCEPT ![r].error = PreRunError(tmpl, inst)]
  /\ IF PreRunError(tmpl, inst) # "none"
       THEN /\ Ended(r, "Exit1")
            /\ UNCHANGED <<files, custom_files, total_updates, asked>>
       ELSE LET f == categorize_files(tmpl, inst) IN
            /\ files' = [files EXCEPT ![r] = f]
            /\ IF f.raised
                 THEN /\ Ended(r, "raised")
                      /\ UNCHANGED <<custom_files, total_updates, asked>>
               ELSE /\ pc' = [pc EXCEPT ![r] = "confirm"]
                    /\ custom_files' = [custom_files EXCEPT ![r] = CustomFiles(f)]
                    /\ total_updates' = [total_updates EXCEPT ![r] = Len(f.new) + Len(f.changed)]
                    /\ asked' = [asked EXCEPT ![r] = @ + 1]
                    /\ UNCHANGED status
  /\ UNCHANGED <<world, answer, backup_dir, idx, updated_count, applied, failed, snap, written>>

\* Lines 107-156: check_initialized, the templates directory check,
\* categorize_files, the "up to date" return, the summary, and the
\* confirmation prompt, at which the run blocks.
Begin(r) ==
  /\ pc[r] = "idle"
  /\ \A q \in Runs : q < r => pc[q] # "idle"
  /\ pre' = [pre EXCEPT ![r] = inst]
  /\ preBackups' = [preBackups EXCEPT ![r] = backups]
  /\ report' = [report EXCEPT ![r].error = PreRunError(tmpl, inst)]
  /\ IF PreRunError(tmpl, inst) # "none"
       THEN /\ Ended(r, "Exit1")
            /\ UNCHANGED <<files, custom_files, total_updates, asked>>
       ELSE LET f == categorize_files(tmpl, inst) IN
            /\ files' = [files EXCEPT ![r] = f]
            /\ IF f.raised
                 THEN /\ Ended(r, "raised")
                      /\ UNCHANGED <<custom_files, total_updates, asked>>
               ELSE IF f.new = <<>> /\ f.changed = <<>>
                 THEN /\ Ended(r, "return")
                      /\ UNCHANGED <<custom_files, total_updates, asked>>
               ELSE /\ pc' = [pc EXCEPT ![r] = "confirm"]
                    /\ custom_files' = [custom_files EXCEPT ![r] = CustomFiles(f)]
                    /\ total_updates' = [total_updates EXCEPT ![r] = Len(f.new) + Len(f.changed)]
                    /\ asked' = [asked EXCEPT ![r] = @ + 1]
                    /\ UNCHANGED status
  /\ UNCHANGED <<world, answer, backup_dir, idx, updated_count, applied, failed, snap, written>>

\* A variant of Confirm that goes on whatever the answer is.
ConfirmAnyAnswer(r, yes) ==
  /\ pc[r] = "confirm"
  /\ answer' = [answer EXCEPT ![r] = IF yes THEN "yes" ELSE "no"]
  /\ pc' = [pc EXCEPT ![r] = "backup"]
  /\ UNCHANGED <<status, report, world, files, custom_files, total_updates, asked,
                 backup_dir, idx, updated_count, applied, failed, history>>

\* A variant of Confirm: the backup is taken before the answer is looked at.
ConfirmAfterBackup(r, yes) ==
  /\ pc[r] = "confirm"
  /\ answer' = [answer EXCEPT ![r] = IF yes THEN "yes" ELSE "no"]
  /\ backups' = [backups EXCEPT ![now] = IF exists(@, Root) THEN @ ELSE inst]
  /\ IF yes
       THEN pc' = [pc EXCEPT ![r] = "backup"] /\ UNCHANGED status
       ELSE Ended(r, "Exit0")
  /\ UNCHANGED <<report, tmpl, inst, now, files, custom_files, total_updates, asked, backup_dir,
                 idx, updated_count, applied, failed, history>>

\* Lines 156-158: the user's answer to typer.confirm; "no" raises typer.Exit(0).
Confirm(r, yes) ==
  /\ pc[r] = "confirm"
  /\ answer' = [answer EXCEPT ![r] = IF yes THEN "yes" ELSE "no"]
  /\ IF yes
       THEN pc' = [pc EXCEPT ![r] = "backup"] /\ UNCHANGED status
       ELSE Ended(r, "Exit0")
  /\ UNCHANGED <<report, world, files, custom_files, total_updates, asked, backup_dir,
                 idx, updated_count, applied, failed, history>>

\* A variant of Backup: an error of create_backup is caught and the run goes on.
BackupErrorCaught(r, outcome, lost) ==
  /\ pc[r] = "backup"
  /\ LET b == create_backup(inst, backups[now], outcome, lost) IN
       /\ backups' = [backups EXCEPT ![now] = b.dir]
       /\ snap' = [snap EXCEPT ![r] = inst]
       /\ backup_dir' = [backup_dir EXCEPT ![r] = IF b.ok THEN now ELSE NoBackup]
       /\ pc' = [pc EXCEPT ![r] = "apply"]
       /\ idx' = [idx EXCEPT ![r] = 1]
  /\ UNCHANGED <<report, tmpl, inst, now, status, files, custom_files, total_updates, asked,
                 answer, updated_count, applied, failed, pre, preBackups, written>>

\* Lines 160-167: create_backup; an error of copytree leaves update_templates.
Backup(r, outcome, lost) ==
  /\ pc[r] = "backup"
  /\ LET b == create_backup(inst, backups[now], outcome, lost) IN
       /\ backups' = [backups EXCEPT ![now] = b.dir]
       /\ snap' = [snap EXCEPT ![r] = inst]
       /\ IF b.ok
            THEN /\ backup_dir' = [backup_dir EXCEPT ![r] = now]
                 /\ pc' = [pc EXCEPT ![r] = "apply"]
                 /\ idx' = [idx EXCEPT ![r] = 1]
                 /\ UNCHANGED status
            ELSE /\ Ended(r, "raised")
                 /\ UNCHANGED <<backup_dir, idx>>
  /\ UNCHANGED <<report, tmpl, inst, now, files, custom_files, total_updates, asked, answer,
                 updated_count, applied, failed, pre, preBackups, written>>

\* A variant of Apply without the try/except of lines 173-178: the error of
\* update_file leaves the loop and update_templates.
ApplyErrorPropagates(r, outcome, k) ==
  /\ pc[r] = "apply"
  /\ idx[r] <= Len(Plan(files[r]))
  /\ LET rel_path == Plan(files[r])[idx[r]]
         u == update_file(tmpl, inst, rel_path, outcome, k)
     IN /\ inst' = u.tree
        /\ written' = [written EXCEPT ![r] =
                         @ \cup { p \in AllPaths : is_file(u.tree, p) /\ u.tree[p] # inst[p] }]
        /\ IF u.ok
             THEN /\ updated_count' = [updated_count EXCEPT ![r] = @ + 1]
                  /\ applied' = [applied EXCEPT ![r] = @ \cup {rel_path}]
                  /\ UNCHANGED <<failed, pc, status>>
             ELSE /\ failed' = [failed EXCEPT ![r] = @ \cup {rel_path}]
                  /\ Ended(r, "raised")
                  /\ UNCHANGED <<updated_count, applied>>
  /\ idx' = [idx EXCEPT ![r] = @ + 1]
  /\ UNCHANGED <<report, tmpl, backups, now, files, custom_files, total_updates,
                 asked, answer, backup_dir, pre, preBackups, snap>>

\* Lines 169-178: one iteration of the apply loop.
Apply(r, outcome, k) ==
  /\ pc[r] = "apply"
  /\ idx[r] <= Len(Plan(files[r]))
  /\ LET rel_path == Plan(files[r])[idx[r]]
         u == update_file(tmpl, inst, rel_path, outcome, k)
     IN /\ inst' = u.tree
        /\ written' = [written EXCEPT ![r] =
                         @ \cup { p \in AllPaths : is_file(u.tree, p) /\ u.tree[p] # inst[p] }]
        /\ IF u.ok
             THEN /\ updated_count' = [updated_count EXCEPT ![r] = @ + 1]
                  /\ applied' = [applied EXCEPT ![r] = @ \cup {rel_path}]
                  /\ UNCHANGED failed
             ELSE /\ failed' = [failed EXCEPT ![r] = @ \cup {rel_path}]
                  /\ UNCHANGED <<updated_count, applied>>
  /\ idx' = [idx EXCEPT ![r] = @ + 1]
  /\ UNCHANGED <<report, tmpl, backups, now, pc, status, files, custom_files, total_updates,
                 asked, answer, backup_dir, pre, preBackups, snap>>

\* Lines 180-189: the loop is over; the report is printed and the run returns.
Finish(r) ==
  /\ pc[r] = "apply"
  /\ idx[r] > Len(Plan(files[r]))
  /\ Ended(r, "return")
  /\ report' = [report EXCEPT ![r] = [@ EXCEPT !.complete = TRUE,
                                               !.updated = updated_count[r],
                                               !.review = custom_files[r]]]
  /\ UNCHANGED <<world, files, custom_files, total_updates, asked, answer, backup_dir,
                 idx, updated_count, applied, failed, history>>

\* The process is terminated between two file copies of the apply phase.
Kill(r) ==
  /\ pc[r] = "apply"
  /\ idx[r] <= Len(Plan(files[r]))
  /\ Ended(r, "killed")
  /\ UNCHANGED <<world, files, custom_files, total_updates, asked, answer, backup_dir,
                 idx, updated_count, applied, failed, report, history>>

\* A second of wall-clock time passes.
Tick ==
  /\ now < MaxClock
  /\ now' = now + 1
  /\ UNCHANGED <<tmpl, inst, backups, locals, history>>

\* One run at a time (the engine's documented assumption): a run starts only
\* when no other run is in flight.
NoneInFlight == \A q \in Runs : pc[q] \in {"idle", "done"}

Next ==
  \/ \E r \in Runs : NoneInFlight /\ Begin(r) /\ UNCHANGED others
  \/ \E r \in Runs, yes \in BOOLEAN : Confirm(r, yes) /\ UNCHANGED others
  \/ \E r \in Runs, outcome \in BackupOutcomes :
       \E lost \in (IF outcome = "copy_fail" THEN Files(inst) ELSE {Root}) :
          Backup(r, outcome, lost) /\ UNCHANGED others
  \/ \E r \in Runs, outcome \in CopyOutcomes, k \in PartialLengths :
       Apply(r, outcome, k) /\ UNCHANGED others
  \/ \E r \in Runs : Finish(r) /\ UNCHANGED others
  \/ \E r \in Runs : Kill(r) /\ UNCHANGED others
  \/ Tick /\ UNCHANGED others

Spec == Init /\ [][Next]_vars

\* ------------------------------------------------------------- overlapping runs
\* A variant of acquire_lock: an exclusive lock on the instance, free only
\* when no run is between its start and its end.
acquire_lock_exclusive(r) == \A q \in Runs : pc[q] \in {"idle", "done"}

\* What update_templates does to keep other runs out before it reads the
\* instance: nothing (no lock file, no flock), so this never blocks.
acquire_lock(r) == TRUE

\* A run starts, whatever the other runs are doing.
ConcurrentBegin(r) == acquire_lock(r) /\ Begin(r)

\* update_templates invoked from several processes on the same instance.
ConcurrentNext ==
  \/ \E r \in Runs : ConcurrentBegin(r) /\ UNCHANGED others
  \/ \E r \in Runs, yes \in BOOLEAN : Confirm(r, yes) /\ UNCHANGED others
  \/ \E r \in Runs, outcome \in BackupOutcomes :
       \E lost \in (IF outcome = "copy_fail" THEN Files(inst) ELSE {Root}) :
          Backup(r, outcome, lost) /\ UNCHANGED others
  \/ \E r \in Runs, outcome \in CopyOutcomes, k \in PartialLengths :
       Apply(r, outcome, k) /\ UNCHANGED others
  \/ \E r \in Runs : Finish(r) /\ UNCHANGED others
  \/ \E r \in Runs : Kill(r) /\ UNCHANGED others
  \/ Tick /\ UNCHANGED others

\* The trees of Init with at most MaxSharedFiles files in the templates
\* directory.
ConcurrentInit ==
  /\ Init
  /\ Cardinality(Files(tmpl)) <= MaxSharedFiles

ConcurrentSpec == ConcurrentInit /\ [][ConcurrentNext]_vars

\* ------------------------------------------------------------- reference scenario
\* The file paths whose filename is in NEVER_UPDATE.
PolicyPaths == { p \in FilePaths : Name(p) \in NEVER_UPDATE }

\* The roles of the paths in the reference scenario: the template file that
\* the instance lacks, the one whose bytes differ in the instance, and the
\* one with a NEVER_UPDATE filename; the other template files are in the
\* instance with the same bytes, but for one path (out) that neither tree has.
ScenarioRoles ==
  { role \in [new : FilePaths \ PolicyPaths, changed : FilePaths \ PolicyPaths,
              out : FilePaths \ PolicyPaths, never : PolicyPaths] :
      Cardinality({role.new, role.changed, role.out}) = 3 }

\* The tree with the given files at the paths of S, and with the directories
\* above them.
TreeOf(S, nodes) ==
  [p \in AllPaths |->
     IF p = Root THEN Dir
     ELSE IF p \in DirPaths THEN (IF \E q \in S : p \in Ancestors(q) THEN Dir ELSE Absent)
     ELSE IF p \in S THEN nodes[p]
     ELSE Absent]

\* A template of five files, and an instance that holds three of them, one
\* with other bytes; the file with the NEVER_UPDATE filename is in the
\* template only.
ScenarioInit ==
  /\ \E role \in ScenarioRoles :
       LET T == ((FilePaths \ PolicyPaths) \ {role.out}) \cup {role.never}
           I == (FilePaths \ PolicyPaths) \ {role.new, role.out}
       IN /\ tmpl = TreeOf(T, [p \in T |-> File(<<1>>, TemplateMode(p))])
          /\ inst = TreeOf(I, [p \in I |-> File(IF p = role.changed THEN <<2>> ELSE <<1>>,
                                                 ModePlain)])
  /\ NoRunYet
  /\ OthersIdle

\* update_templates where no file operation of create_backup and update_file
\* fails and the process runs to its end.
ScenarioNext ==
  \/ \E r \in Runs : NoneInFlight /\ Begin(r) /\ UNCHANGED others
  \/ \E r \in Runs, yes \in BOOLEAN : Confirm(r, yes) /\ UNCHANGED others
  \/ \E r \in Runs : Backup(r, "ok", Root) /\ UNCHANGED others
  \/ \E r \in Runs : Apply(r, "ok", 0) /\ UNCHANGED others
  \/ \E r \in Runs : Finish(r) /\ UNCHANGED others
  \/ Tick /\ UNCHANGED others

ScenarioSpec == ScenarioInit /\ [][ScenarioNext]_vars

\* ------------------------------------------------------------- init_project
\* update_templates has not been called and there is nothing for it to read.
UpdateIdle == tmpl = AbsentTree /\ inst = AbsentTree /\ NoRunYet

Reverse(s) == [i \in 1..Len(s) |-> s[Len(s) + 1 - i]]

\* Two orders in which iterdir may list the templates directory.
NameOrder ==
  <<".env.example", "Dockerfile", "cloudflared", "config", "docker-compose.yml",
    "hooks", "openvpn", "scripts", "tailscale">>

ListingOf(entries, order) ==
  LET Present(n) == entries[n] # "absent" IN SelectSeq(order, Present)

\* The packages: no templates directory at all, or one with the core files
\* and directories, with cloudflared, with or without openvpn, and with
\* tailscale as a directory, as a plain file or not at all.
Packages ==
  {[exists |-> FALSE, entries |-> [n \in TemplateNames |-> "absent"], listing |-> <<>>]}
    \cup
  { [exists |-> TRUE, entries |-> e, listing |-> ListingOf(e, order)] :
      e \in { e \in [TemplateNames -> Kinds] :
                /\ \A n \in CoreFiles : e[n] = "file"
                /\ \A n \in CoreDirs : e[n] = "dir"
                /\ e["cloudflared"] = "dir"
                /\ e["openvpn"] \in {"absent", "dir"} },
      order \in {NameOrder, Reverse(NameOrder)} }

\* Path.exists().
exists_at(tree, p) == tree[p] # "absent"

\* A variant of rmtree that removes what the directory holds and keeps the
\* directory.
rmtree_keep_user_files(tree, dir) ==
  [p \in ProjectPaths |->
     IF Below(p, dir) /\ p # dir /\ p[Len(p)] \notin UserNames THEN "absent" ELSE tree[p]]

\* shutil.rmtree(dir) on a directory.
rmtree(tree, dir) ==
  [p \in ProjectPaths |-> IF Below(p, dir) THEN "absent" ELSE tree[p]]

\* A variant of copy_item that leaves the excluded entries out in minimal mode.
copy_item_skip_excluded(tree, dest_dir, name, kind, minimal) ==
  IF minimal /\ name \in MINIMAL_EXCLUDE
    THEN tree
  ELSE IF kind = "dir"
    THEN [tree EXCEPT ![dest_dir \o <<name>>] = "dir",
                      ![dest_dir \o <<name, ChildName(name)>>] = "file"]
  ELSE [tree EXCEPT ![dest_dir \o <<name>>] = "file"]

\* Lines 119-135: one iteration of the copy loop, for the entry `name` of the
\* templates directory, which is of the given kind.
copy_item(tree, dest_dir, name, kind, minimal) ==
  IF minimal /\ name \in MINIMAL_EXCLUDE
    THEN IF kind = "dir"
           THEN [tree EXCEPT ![dest_dir \o <<name>>] = "dir"]
           ELSE tree
  ELSE IF kind = "dir"
    THEN [tree EXCEPT ![dest_dir \o <<name>>] = "dir",
                      ![dest_dir \o <<name, ChildName(name)>>] = "file"]
  ELSE [tree EXCEPT ![dest_dir \o <<name>>] = "file"]

\* A variant of make_layout that makes logs, .env and .gitignore in the
\* project directory, beside .claude-yolo.
make_layout_in_project(tree, project_dir) ==
  [p \in ProjectPaths |->
     IF p \in {project_dir \o <<"logs">>, project_dir \o claude_dir \o <<"home">>}
          \cup { project_dir \o <<"logs", d>> : d \in log_subdirs }
       THEN "dir"
     ELSE IF p \in {project_dir \o <<".env">>, project_dir \o <<".gitignore">>}
       THEN "file"
     ELSE tree[p]]

\* Lines 144-203: logs with its subdirectories, home, .env (where there is
\* none) and .gitignore, all of them inside .claude-yolo.  The host's git
\* configuration, which setup_git_config may copy into home, is left out.
make_layout(tree, project_dir) ==
  LET dir == project_dir \o claude_dir IN
  [p \in ProjectPaths |->
     IF p \in {dir \o <<"logs">>, dir \o <<"home">>}
          \cup { dir \o <<"logs", d>> : d \in log_subdirs }
       THEN "dir"
     ELSE IF p \in {dir \o <<".env">>, dir \o <<".gitignore">>}
       THEN "file"
     ELSE tree[p]]

\* A variant of check_initialized that looks for .claude-yolo in the parent
\* directories too.
check_initialized_upwards(tree, project_root) ==
  LET found == { n \in 0..Len(project_root) :
                   exists_at(tree, SubSeq(project_root, 1, n) \o claude_dir) }
  IN IF found = {}
       THEN [exit |-> 1, path |-> <<>>]
       ELSE [exit |-> 0,
             path |-> SubSeq(project_root, 1, CHOOSE n \in found : \A m \in found : m <= n)
                        \o claude_dir]

\* lifecycle.check_initialized(project_root): the path it returns, or the
\* exit code 1.
check_initialized(tree, project_root) ==
  IF ~exists_at(tree, project_root \o claude_dir)
    THEN [exit |-> 1, path |-> <<>>]
    ELSE [exit |-> 0, path |-> project_root \o claude_dir]

\* Project directories before the first call: each has no .claude-yolo, a
\* plain file of that name, or a directory that holds a file of the user's.
InitInit ==
  /\ \E start \in [ProjectDirs -> Kinds] :
       fs = [p \in ProjectPaths |->
               IF \E d \in ProjectDirs : p = d \o claude_dir
                 THEN start[CHOOSE d \in ProjectDirs : p = d \o claude_dir]
               ELSE IF \E d \in ProjectDirs :
                         p = d \o claude_dir \o <<"MARKER">> /\ start[d] = "dir"
                 THEN "file"
               ELSE "absent"]
  /\ package \in Packages
  /\ NoInitYet
  /\ UpdateIdle
  /\ OrdIdle
  /\ CheckoutIdle
  /\ ContainerIdle

InitEnded(how) ==
  /\ init_pc' = "done"
  /\ init_status' = how

\* Lines 105-115: .claude-yolo is made, and the templates directory is looked for.
InitEnter(tree, project_dir) ==
  /\ fs' = [tree EXCEPT ![project_dir \o claude_dir] = "dir"]
  /\ IF package.exists
       THEN /\ init_pc' = "copy"
            /\ init_idx' = 1
            /\ init_status' = "none"
       ELSE /\ InitEnded("Exit1")
            /\ UNCHANGED init_idx

\* Lines 93-100: init_project(project_dir, minimal) is called; where
\* .claude-yolo exists it asks and blocks.
InitCall(project_dir, minimal) ==
  /\ init_pc \in {"idle", "done"}
  /\ init_calls < MaxInitCalls
  /\ init_calls' = init_calls + 1
  /\ init_args' = [project_dir |-> project_dir, minimal |-> minimal]
  /\ init_pre' = fs
  /\ init_answer' = "none"
  /\ IF exists_at(fs, project_dir \o claude_dir)
       THEN /\ init_pc' = "confirm"
            /\ init_status' = "none"
            /\ init_idx' = 0
            /\ UNCHANGED fs
       ELSE InitEnter(fs, project_dir)
  /\ UNCHANGED package

\* A variant of InitConfirm that removes .claude-yolo before it looks at the
\* answer.
InitConfirmRemovesFirst(yes) ==
  /\ init_pc = "confirm"
  /\ init_answer' = IF yes THEN "yes" ELSE "no"
  /\ LET dir == init_args.project_dir \o claude_dir IN
     IF fs[dir] = "file"
       THEN InitEnded("raised") /\ UNCHANGED <<fs, init_idx>>
     ELSE IF ~yes
       THEN InitEnded("Exit1") /\ fs' = rmtree(fs, dir) /\ UNCHANGED init_idx
     ELSE InitEnter(rmtree(fs, dir), init_args.project_dir)
  /\ UNCHANGED <<package, init_calls, init_args, init_pre>>

\* Lines 100-103: the answer; "no" ends the call with typer.Exit(1), "yes"
\* removes .claude-yolo (rmtree raises on a plain file).
InitConfirm(yes) ==
  /\ init_pc = "confirm"
  /\ init_answer' = IF yes THEN "yes" ELSE "no"
  /\ LET dir == init_args.project_dir \o claude_dir IN
     IF ~yes
       THEN InitEnded("Exit1") /\ UNCHANGED <<fs, init_idx>>
     ELSE IF fs[dir] = "file"
       THEN InitEnded("raised") /\ UNCHANGED <<fs, init_idx>>
     ELSE InitEnter(rmtree(fs, dir), init_args.project_dir)
  /\ UNCHANGED <<package, init_calls, init_args, init_pre>>

\* Lines 119-135: one iteration of the copy loop; an error of copytree or
\* copy2 leaves init_project.
InitCopy(outcome) ==
  /\ init_pc = "copy"
  /\ init_idx <= Len(package.listing)
  /\ LET name == package.listing[init_idx] IN
       IF outcome = "ok" \/ (init_args.minimal /\ name \in MINIMAL_EXCLUDE)
         THEN /\ fs' = copy_item(fs, init_args.project_dir \o claude_dir, name,
                                  package.entries[name], init_args.minimal)
              /\ init_idx' = init_idx + 1
              /\ UNCHANGED <<init_pc, init_status>>
         ELSE /\ InitEnded("raised")
              /\ UNCHANGED <<fs, init_idx>>
  /\ UNCHANGED <<package, init_calls, init_args, init_answer, init_pre>>

\* Lines 137-212: after the loop, the layout is made and init_project returns.
InitLayout ==
  /\ init_pc = "copy"
  /\ init_idx > Len(package.listing)
  /\ fs' = make_layout(fs, init_args.project_dir)
  /\ InitEnded("return")
  /\ UNCHANGED <<package, init_calls, init_args, init_answer, init_idx, init_pre>>

\* Between two calls the user puts a file of their own into a .claude-yolo
\* directory.
UserMarks(project_dir) ==
  /\ init_pc = "done"
  /\ fs[project_dir \o claude_dir] = "dir"
  /\ fs[project_dir \o claude_dir \o <<"MARKER">>] = "absent"
  /\ fs' = [fs EXCEPT ![project_dir \o claude_dir \o <<"MARKER">>] = "file"]
  /\ init_pc' = "idle"
  /\ UNCHANGED <<package, init_calls, init_args, init_status, init_answer,
                 init_idx, init_pre>>

InitNext ==
  \/ \E project_dir \in ProjectDirs, minimal \in BOOLEAN :
       InitCall(project_dir, minimal) /\ UNCHANGED <<vars, ordvars, covars, ctvars>>
  \/ \E yes \in BOOLEAN : InitConfirm(yes) /\ UNCHANGED <<vars, ordvars, covars, ctvars>>
  \/ \E outcome \in {"ok", "fail"} : InitCopy(outcome) /\ UNCHANGED <<vars, ordvars, covars, ctvars>>
  \/ InitLayout /\ UNCHANGED <<vars, ordvars, covars, ctvars>>
  \/ \E project_dir \in ProjectDirs : UserMarks(project_dir) /\ UNCHANGED <<vars, ordvars, covars, ctvars>>

InitSpec == InitInit /\ [][InitNext]_<<vars, others>>

\* ------------------------------------------------------------- apply phase in any order
\* update_file, first statement: target_file.parent.mkdir(parents=True,
\* exist_ok=True) on its own.  A variant with exist_ok=False, which raises
\* when the parent directory is there already.
mkdir_step_no_exist_ok(claude, p, outcome) ==
  IF MkdirRaises(claude, p) \/ (Parent(p) # Root /\ is_dir(claude, Parent(p)))
    THEN [tree |-> claude, ok |-> FALSE]
  ELSE IF outcome = "mkdir_fail" /\ ~is_dir(claude, Parent(p))
    THEN [tree |-> claude, ok |-> FALSE]
  ELSE [tree |-> MkdirParents(claude, p), ok |-> TRUE]

\* update_file, first statement: target_file.parent.mkdir(parents=True,
\* exist_ok=True) on its own.
mkdir_step(claude, p, outcome) ==
  IF MkdirRaises(claude, p) THEN [tree |-> claude, ok |-> FALSE]
  ELSE IF outcome = "mkdir_fail" /\ ~is_dir(claude, Parent(p))
    THEN [tree |-> claude, ok |-> FALSE]
  ELSE [tree |-> MkdirParents(claude, p), ok |-> TRUE]

\* update_file, second statement: shutil.copy2(template_file, target_file)
\* on its own, the parent directory being there.
copy2_step(templates, claude, p, outcome, k) ==
  IF outcome \in {"mkdir_fail", "open_fail"}
    THEN [tree |-> claude, ok |-> FALSE]
  ELSE IF is_dir(claude, p)
    THEN [tree |-> claude, ok |-> outcome = "ok"]
  ELSE IF outcome = "write_fail" /\ k < Len(templates[p].content)
    THEN [tree |-> [claude EXCEPT ![p] =
                      File(SubSeq(templates[p].content, 1, k), ModeAfterOpen(claude, p))],
          ok |-> FALSE]
  ELSE [tree |-> [claude EXCEPT ![p] = templates[p]], ok |-> TRUE]

\* The loops of lines 169-178 as one pass over plan: the instance tree at the
\* end and the paths whose update_file raised.
RECURSIVE apply_pass(_, _, _, _)
apply_pass(templates, claude, plan, env) ==
  IF plan = <<>> THEN [tree |-> claude, failed |-> {}]
  ELSE LET p == Head(plan)
           u == update_file(templates, claude, p, env[p].outcome, env[p].k)
           rest == apply_pass(templates, u.tree, Tail(plan), env)
       IN [tree |-> rest.tree,
           failed |-> rest.failed \cup (IF u.ok THEN {} ELSE {p})]

\* The list the apply loops go through, as the run computed it before the
\* confirmation.
OrdPlan == Plan(categorize_files(tmpl, ord_start))

\* The apply phase is about to start (the backup is made): the templates and
\* the instance are such that a run gets there, and the environment's part in
\* every copy is fixed, whatever the order of the copies.
OrderInit ==
  /\ InitialTrees
  /\ NoRunYet
  /\ InitIdle
  /\ CheckoutIdle
  /\ ContainerIdle
  /\ PreRunError(tmpl, inst) = "none"
  /\ ~categorize_files(tmpl, inst).raised
  /\ Plan(categorize_files(tmpl, inst)) # <<>>
  /\ ord_start = inst
  /\ ord_env \in [Range(Plan(categorize_files(tmpl, inst))) ->
                    [outcome : CopyOutcomes, k : PartialLengths]]
  /\ ord_stage = [p \in Range(Plan(categorize_files(tmpl, inst))) |-> "todo"]
  /\ ord_failed = {}

\* Some worker makes the parent directories of path p.
OrdMkdir(p) ==
  /\ ord_stage[p] = "todo"
  /\ LET m == mkdir_step(inst, p, ord_env[p].outcome) IN
       /\ inst' = m.tree
       /\ IF m.ok
            THEN ord_stage' = [ord_stage EXCEPT ![p] = "made"] /\ UNCHANGED ord_failed
            ELSE /\ ord_stage' = [ord_stage EXCEPT ![p] = "done"]
                 /\ ord_failed' = ord_failed \cup {p}
  /\ UNCHANGED <<tmpl, backups, now, locals, history, ord_start, ord_env>>

\* The worker that made the parent directories of path p copies the file.
OrdCopy(p) ==
  /\ ord_stage[p] = "made"
  /\ LET u == copy2_step(tmpl, inst, p, ord_env[p].outcome, ord_env[p].k) IN
       /\ inst' = u.tree
       /\ ord_failed' = IF u.ok THEN ord_failed ELSE ord_failed \cup {p}
  /\ ord_stage' = [ord_stage EXCEPT ![p] = "done"]
  /\ UNCHANGED <<tmpl, backups, now, locals, history, ord_start, ord_env>>

OrderNext ==
  \/ \E p \in DOMAIN ord_stage : OrdMkdir(p) /\ UNCHANGED <<initvars, covars, ctvars>>
  \/ \E p \in DOMAIN ord_stage : OrdCopy(p) /\ UNCHANGED <<initvars, covars, ctvars>>

OrderSpec == OrderInit /\ [][OrderNext]_<<vars, others>>

\* ------------------------------------------------------------- checkout_repo
\* What may lie at target_dir when checkout_repo is called.
TargetKinds == {"absent", "old_dir", "old_file"}

\* The invocation goes through _run_initialization_flow (lines 161-163 and
\* 172-174) and does not call init_project itself (lines 167-170).
InFlow == co_args.auto_start \/ ~co_args.no_interactive

\* The parameters without default of lifecycle.build_image, and the keyword
\* arguments that _run_initialization_flow calls it with: the call raises
\* TypeError, before the body of build_image runs, unless the arguments bind.
build_image_required == {"project_root"}
flow_build_kwargs == {"no_cache", "pull"}
build_image_binds == build_image_required \subseteq flow_build_kwargs

\* The invocation ends; an exception raised inside the flow is caught there.
CheckoutEnded(how, log) ==
  /\ co_pc' = "done"
  /\ co_status' = how
  /\ co_log' = log

\* shutil.rmtree(target_dir): removes a directory, raises on a plain file.
CheckoutRemove(log) ==
  IF co_target = "old_dir"
    THEN /\ co_target' = "absent"
         /\ co_pc' = "clone"
         /\ co_log' = log \o <<"rmtree">>
         /\ UNCHANGED co_status
    ELSE /\ CheckoutEnded("raised", log \o <<"rmtree">>)
         /\ UNCHANGED co_target

\* A variant of CheckoutCall in which no_interactive stands for the user's
\* consent: the existing target is removed without --force.
CheckoutCallSkipsPrompt(force, no_interactive, auto_start) ==
  /\ co_pc = "idle"
  /\ co_args' = [force |-> force, no_interactive |-> no_interactive,
                 auto_start |-> auto_start, found |-> co_target]
  /\ IF co_target # "absent"
       THEN IF force \/ no_interactive
              THEN CheckoutRemove(co_log)
              ELSE /\ co_pc' = "confirm_overwrite"
                   /\ co_log' = co_log \o <<"confirm:overwrite">>
                   /\ UNCHANGED <<co_target, co_status>>
       ELSE /\ co_pc' = "clone"
            /\ UNCHANGED <<co_target, co_log, co_status>>
  /\ UNCHANGED co_repo_config

\* Lines 125-143: the target directory is looked at; with --force it is
\* removed, with --no-interactive the call ends, otherwise the user is asked.
CheckoutCall(force, no_interactive, auto_start) ==
  /\ co_pc = "idle"
  /\ co_args' = [force |-> force, no_interactive |-> no_interactive,
                 auto_start |-> auto_start, found |-> co_target]
  /\ IF co_target # "absent"
       THEN IF force
              THEN CheckoutRemove(co_log)
            ELSE IF no_interactive
              THEN CheckoutEnded("Exit1", co_log) /\ UNCHANGED co_target
            ELSE /\ co_pc' = "confirm_overwrite"
                 /\ co_log' = co_log \o <<"confirm:overwrite">>
                 /\ UNCHANGED <<co_target, co_status>>
       ELSE /\ co_pc' = "clone"
            /\ UNCHANGED <<co_target, co_log, co_status>>
  /\ UNCHANGED co_repo_config

\* Lines 139-143: the answer to "<dir_name> already exists. Overwrite?".
CheckoutConfirm(yes) ==
  /\ co_pc = "confirm_overwrite"
  /\ IF yes
       THEN CheckoutRemove(co_log \o <<"overwrite:yes">>)
       ELSE CheckoutEnded("Exit1", co_log \o <<"overwrite:no">>) /\ UNCHANGED co_target
  /\ UNCHANGED <<co_args, co_repo_config>>

\* init_project is called in the clone (init.py lines 93-103): where the
\* clone carries a .claude-yolo directory it asks before overwriting it.
CallInitProject(log) ==
  /\ IF co_repo_config
       THEN /\ co_pc' = "init_overwrite"
            /\ co_log' = log \o <<"init_project", "confirm:overwrite_config">>
       ELSE /\ co_pc' = "init_run"
            /\ co_log' = log \o <<"init_project">>
  /\ UNCHANGED co_status

\* Lines 196-208: should_build is true; build_image is called, the error of
\* the call is caught and the flow returns.
CallBuildImage(log) ==
  IF build_image_binds
    THEN /\ co_pc' = "build_run"
         /\ co_log' = log \o <<"build_image">>
         /\ UNCHANGED co_status
    ELSE CheckoutEnded("return", log \o <<"build_image", "build_raised">>)

\* Lines 145-174: git clone ends.  On failure the call ends with exit code 1;
\* on success the process changes into the clone and, by the flags, runs the
\* flow without prompts, calls init_project itself, or runs the flow and asks.
CheckoutClone(ok) ==
  /\ co_pc = "clone"
  /\ IF ~ok
       THEN /\ CheckoutEnded("Exit1", co_log \o <<"git_clone", "clone_failed">>)
            /\ UNCHANGED co_target
       ELSE /\ co_target' = "clone"
            /\ LET log == co_log \o <<"git_clone", "chdir">> IN
                 IF co_args.auto_start \/ co_args.no_interactive
                   THEN CallInitProject(log)
                   ELSE /\ co_pc' = "ask_init"
                        /\ co_log' = log \o <<"confirm:init">>
                        /\ UNCHANGED co_status
  /\ UNCHANGED <<co_args, co_repo_config>>

\* Lines 187-189 and 227-229: the answer to "Initialize claude-yolo for this
\* project?".
FlowAskInit(yes) ==
  /\ co_pc = "ask_init"
  /\ IF yes
       THEN CallInitProject(co_log \o <<"init:yes">>)
       ELSE CheckoutEnded("return", co_log \o <<"init:no">>)
  /\ UNCHANGED <<co_args, co_target, co_repo_config>>

\* init.py lines 96-103 inside the clone: the answer to "Overwrite existing
\* configuration?"; "no" raises typer.Exit(1), which the flow catches as any
\* Exception (line 192) and which leaves checkout_repo where it calls
\* init_project itself.
InitOverwrite(yes) ==
  /\ co_pc = "init_overwrite"
  /\ IF yes
       THEN /\ co_pc' = "init_run"
            /\ co_log' = co_log \o <<"overwrite_config:yes">>
            /\ UNCHANGED co_status
       ELSE CheckoutEnded(IF InFlow THEN "return" ELSE "Exit1",
                          co_log \o <<"overwrite_config:no", "init_raised">>)
  /\ UNCHANGED <<co_args, co_target, co_repo_config>>

\* init_project ends: it returns, raises typer.Exit(1) (no templates
\* directory) or raises the error of a copy.  In the flow (lines 190-211) an
\* exception ends the flow, and a return is followed by the build step, at
\* once with auto, after a prompt otherwise.
InitRun(outcome) ==
  /\ co_pc = "init_run"
  /\ IF outcome = "ok"
       THEN IF ~InFlow
              THEN CheckoutEnded("return", co_log \o <<"init_returned">>)
            ELSE IF co_args.auto_start
              THEN CallBuildImage(co_log \o <<"init_returned">>)
            ELSE /\ co_pc' = "ask_build"
                 /\ co_log' = co_log \o <<"init_returned", "confirm:build">>
                 /\ UNCHANGED co_status
       ELSE CheckoutEnded(IF InFlow THEN "return" ELSE outcome,
                          co_log \o <<"init_raised">>)
  /\ UNCHANGED <<co_args, co_target, co_repo_config>>

\* Lines 197-199 and 224-226: the answer to "Build Docker container now?".
FlowAskBuild(yes) ==
  /\ co_pc = "ask_build"
  /\ IF yes
       THEN CallBuildImage(co_log \o <<"build:yes">>)
       ELSE CheckoutEnded("return", co_log \o <<"build:no">>)
  /\ UNCHANGED <<co_args, co_target, co_repo_config>>

CheckoutInit ==
  /\ co_pc = "idle"
  /\ co_args = [force |-> FALSE, no_interactive |-> FALSE, auto_start |-> FALSE,
                found |-> "absent"]
  /\ co_target \in TargetKinds
  /\ co_repo_config \in BOOLEAN
  /\ co_log = <<>>
  /\ co_status = "none"
  /\ UpdateIdle
  /\ InitIdle
  /\ OrdIdle
  /\ ContainerIdle

CheckoutNext ==
  \/ \E force, no_interactive, auto_start \in BOOLEAN :
       CheckoutCall(force, no_interactive, auto_start)
         /\ UNCHANGED <<vars, initvars, ordvars, ctvars>>
  \/ \E yes \in BOOLEAN : CheckoutConfirm(yes) /\ UNCHANGED <<vars, initvars, ordvars, ctvars>>
  \/ \E ok \in BOOLEAN : CheckoutClone(ok) /\ UNCHANGED <<vars, initvars, ordvars, ctvars>>
  \/ \E yes \in BOOLEAN : FlowAskInit(yes) /\ UNCHANGED <<vars, initvars, ordvars, ctvars>>
  \/ \E yes \in BOOLEAN : InitOverwrite(yes) /\ UNCHANGED <<vars, initvars, ordvars, ctvars>>
  \/ \E outcome \in {"ok", "Exit1", "raised"} :
       InitRun(outcome) /\ UNCHANGED <<vars, initvars, ordvars, ctvars>>
  \/ \E yes \in BOOLEAN : FlowAskBuild(yes) /\ UNCHANGED <<vars, initvars, ordvars, ctvars>>

CheckoutSpec == CheckoutInit /\ [][CheckoutNext]_<<vars, others>>

\* ------------------------------------------------------------- run_container
\* The subprocesses of run_container with build_first, in program order: the
\* hooks (run_hook) and the docker-compose commands (docker_compose_cmd).
Stages == <<"pre-build", "build", "post-build", "pre-start", "up">>
HookStages == {"pre-build", "post-build", "pre-start"}
StageIndex(stage) == CHOOSE i \in 1..Len(Stages) : Stages[i] = stage

\* Exit codes of a docker-compose command.
ComposeCodes == 0..2

\* An entry of the log: a subprocess started ("hook", "compose"), the exit
\* code it ended with ("code"), a warning ("warn"), or an error that is not
\* an exit code ("error").
Event(ev, stage, code) == [ev |-> ev, stage |-> stage, code |-> code]

Returned == [how |-> "return", code |-> 0]
Exited(code) == [how |-> "exit", code |-> code]
Raised == [how |-> "raised", code |-> 0]

\* A variant of run_hook without the except clause: a hook that exits
\* non-zero raises CalledProcessError out of run_hook.
run_hook_check(outcome) ==
  [raises |-> outcome # "zero", warn |-> FALSE]

\* run_hook once the hook script has been started: exit code zero, exit code
\* non-zero (CalledProcessError, caught: a warning), or the script could not
\* be executed (OSError, not caught).
run_hook(outcome) ==
  [raises |-> outcome = "oserror", warn |-> outcome = "nonzero"]

\* docker_compose_cmd up to subprocess.run: check_initialized, the compose
\* file and the extra compose file must be there, or typer.Exit(1).
docker_compose_cmd(project, extra) ==
  IF ~project.initialized \/ ~project.compose \/ (extra /\ ~project.mcp_compose)
    THEN "Exit1" ELSE "run"

\* From stage number i on, up to the next subprocess that is started or to
\* the end of run_container: a hook whose file is missing is passed over.
RECURSIVE Advance(_, _, _, _)
Advance(project, args, i, log) ==
  IF i > Len(Stages) THEN [pc |-> "done", log |-> log, status |-> Returned]
  ELSE IF Stages[i] \in HookStages
    THEN IF Stages[i] \in project.hooks
           THEN [pc |-> Stages[i], log |-> Append(log, Event("hook", Stages[i], 0)),
                 status |-> [how |-> "none", code |-> 0]]
           ELSE Advance(project, args, i + 1, log)
  ELSE IF docker_compose_cmd(project, Stages[i] = "up" /\ args.mcp) = "Exit1"
    THEN [pc |-> "done", log |-> log, status |-> Exited(1)]
  ELSE [pc |-> Stages[i], log |-> Append(log, Event("compose", Stages[i], 0)),
        status |-> [how |-> "none", code |-> 0]]

\* The invocation is at the point a.
ContainerAt(a) ==
  /\ ct_pc' = a.pc
  /\ ct_log' = a.log
  /\ ct_status' = a.status

\* Lines 154-162 (and 119-122 of build_image): check_initialized, then the
\* build stages with build_first, the start stages without.
RunCall(build_first, mcp) ==
  /\ ct_pc = "idle"
  /\ ct_args' = [build_first |-> build_first, mcp |-> mcp]
  /\ IF ~ct_project.initialized
       THEN ContainerAt([pc |-> "done", log |-> ct_log, status |-> Exited(1)])
       ELSE ContainerAt(Advance(ct_project, [build_first |-> build_first, mcp |-> mcp],
                                IF build_first THEN 1 ELSE StageIndex("pre-start"),
                                ct_log))
  /\ UNCHANGED ct_project

\* The hook script that was started ends.
HookDone(outcome) ==
  /\ ct_pc \in HookStages
  /\ LET r == run_hook(outcome)
         log == Append(ct_log, IF outcome = "oserror" THEN Event("error", ct_pc, 0)
                               ELSE Event("code", ct_pc, IF outcome = "zero" THEN 0 ELSE 1))
     IN IF r.raises
          THEN ContainerAt([pc |-> "done", log |-> log, status |-> Raised])
          ELSE ContainerAt(Advance(ct_project, ct_args, StageIndex(ct_pc) + 1,
                                   IF r.warn THEN Append(log, Event("warn", ct_pc, 0))
                                             ELSE log))
  /\ UNCHANGED <<ct_args, ct_project>>

\* The docker-compose command that was started ends with an exit code:
\* non-zero is CalledProcessError, which becomes typer.Exit(returncode)
\* (lines 139-141 for build, 190-192 for up).
ComposeDone(code) ==
  /\ ct_pc \in {"build", "up"}
  /\ LET log == Append(ct_log, Event("code", ct_pc, code)) IN
       IF code # 0
         THEN ContainerAt([pc |-> "done", log |-> log, status |-> Exited(code)])
         ELSE ContainerAt(Advance(ct_project, ct_args, StageIndex(ct_pc) + 1, log))
  /\ UNCHANGED <<ct_args, ct_project>>

\* The user interrupts the docker-compose command: during up the
\* KeyboardInterrupt is caught (lines 193-194) and run_container returns,
\* during build it leaves run_container.
ComposeInterrupted ==
  /\ ct_pc \in {"build", "up"}
  /\ ContainerAt([pc |-> "done", log |-> Append(ct_log, Event("error", ct_pc, 0)),
                  status |-> IF ct_pc = "up" THEN Returned ELSE Raised])
  /\ UNCHANGED <<ct_args, ct_project>>

\* run_container is about to be called in a project directory: the compose
\* files and the hooks lie inside .claude-yolo.
ContainerInit ==
  /\ ct_pc = "idle"
  /\ ct_args = [build_first |-> FALSE, mcp |-> FALSE]
  /\ ct_project \in [initialized : BOOLEAN, compose : BOOLEAN, mcp_compose : BOOLEAN,
                      hooks : SUBSET HookStages]
  /\ ~ct_project.initialized =>
       ~ct_project.compose /\ ~ct_project.mcp_compose /\ ct_project.hooks = {}
  /\ ct_log = <<>>
  /\ ct_status = [how |-> "none", code |-> 0]
  /\ UpdateIdle
  /\ InitIdle
  /\ OrdIdle
  /\ CheckoutIdle

ContainerNext ==
  \/ \E build_first, mcp \in BOOLEAN :
       RunCall(build_first, mcp) /\ UNCHANGED <<vars, initvars, ordvars, covars>>
  \/ \E outcome \in {"zero", "nonzero", "oserror"} :
       HookDone(outcome) /\ UNCHANGED <<vars, initvars, ordvars, covars>>
  \/ \E code \in ComposeCodes :
       ComposeDone(code) /\ UNCHANGED <<vars, initvars, ordvars, covars>>
  \/ ComposeInterrupted /\ UNCHANGED <<vars, initvars, ordvars, covars>>

ContainerSpec == ContainerInit /\ [][ContainerNext]_<<vars, others>>

\* ------------------------------------------------------------- properties
\* The model's trees stay trees, and the apply loop never copies onto a
\* directory (categorize_files raises on one).
TreesWellFormed == WellFormed(tmpl) /\ WellFormed(inst)

TargetIsNoDirectory ==
  \A r \in Runs :
    (pc[r] = "apply" /\ idx[r] <= Len(Plan(files[r]))) =>
      ~is_dir(inst, Plan(files[r])[idx[r]])

\* Run r has started and no later run has.
Latest(r) == pc[r] # "idle" /\ \A q \in Runs : q > r => pc[q] = "idle"

\* Run r got a result from categorize_files.
Categorized(r) == pc[r] # "idle" /\ status[r] # "Exit1" /\ ~files[r].raised

\* C1 (never-update invariant): no run has a path whose filename is in
\* NEVER_UPDATE among new + changed, and no run creates, overwrites or deletes
\* such a path: from the start of a run on, its node in the instance is the
\* one the run found.
C1_NeverUpdateUntouched ==
  \A r \in Runs : \A p \in PolicyPaths :
    /\ p \notin Range(Plan(files[r]))
    /\ p \notin written[r]
    /\ pc[r] # "idle" => inst[p] = pre[r][p]

\* A run applied a file while a never_update template file differs from the
\* instance's, or is missing there.
C1_Witness ==
  \E r \in Runs : \E p \in PolicyPaths :
    /\ applied[r] # {}
    /\ is_file(tmpl, p)
    /\ inst[p] # tmpl[p]

\* C2 (backup before write): whenever a step of run r changes the instance,
\* the run's backup directory exists; and at the run's first write the backup
\* holds an identical copy of every file of the instance, as it is before
\* that write.
C2_BackupBeforeWrite ==
  [][\A r \in Runs :
       (inst' # inst /\ idx'[r] # idx[r]) =>
          /\ backup_dir[r] # NoBackup
          /\ is_dir(backups[backup_dir[r]], Root)
          /\ written[r] = {} =>
               \A p \in Files(inst) : backups[backup_dir[r]][p] = inst[p]]_vars

\* A run has written a file while the instance held a never_update file and
\* a file that the template does not have.
C2_Witness ==
  \E r \in Runs :
    /\ written[r] # {}
    /\ \E p \in Files(pre[r]) : Name(p) \in NEVER_UPDATE \/ ~exists(tmpl, p)

NoDuplicates(s) == \A i, j \in 1..Len(s) : s[i] = s[j] => i = j

Lists(f) == <<f.new, f.changed, f.unchanged, f.never_update>>

\* C3 (partition): whenever categorize_files returns, its four lists are
\* pairwise disjoint and free of duplicates, hold no directory, and together
\* hold exactly the files under the template root.
C3_Partition ==
  LET f == categorize_files(tmpl, inst) IN
    (is_dir(tmpl, Root) /\ ~f.raised) =>
      /\ \A i \in 1..4 : NoDuplicates(Lists(f)[i])
      /\ \A i, j \in 1..4 : i # j => Range(Lists(f)[i]) \cap Range(Lists(f)[j]) = {}
      /\ \A i \in 1..4 : \A p \in Range(Lists(f)[i]) : ~is_dir(tmpl, p)
      /\ UNION { Range(Lists(f)[i]) : i \in 1..4 } = Files(tmpl)

\* A run classified a template with a directory, whose two files went to two
\* different lists, one of them never_update.
C3_Witness ==
  \E r \in Runs :
    /\ Categorized(r)
    /\ files[r] = categorize_files(tmpl, pre[r])
    /\ is_dir(tmpl, <<"hooks">>)
    /\ Len(files[r].never_update) = 1
    /\ Len(files[r].new) + Len(files[r].changed) + Len(files[r].unchanged) = 1

\* C4 (user declined): a run whose confirmation was answered "no" has ended
\* with typer.Exit(0); it wrote nothing and made no backup: until the next
\* run starts, the instance tree and the backup directories are those the
\* run found.
C4_DeclinedNoEffect ==
  \A r \in Runs :
    answer[r] = "no" =>
      /\ pc[r] = "done" /\ status[r] = "Exit0"
      /\ written[r] = {} /\ applied[r] = {} /\ failed[r] = {}
      /\ backup_dir[r] = NoBackup
      /\ Latest(r) => inst = pre[r] /\ backups = preBackups[r]

\* The user declined a plan with a new and a changed file.
C4_Witness ==
  \E r \in Runs :
    /\ answer[r] = "no"
    /\ files[r].new # <<>>
    /\ files[r].changed # <<>>

\* The paths of new + changed that the apply loop of run r has been through.
Attempted(r) == { Plan(files[r])[i] : i \in 1..(idx[r] - 1) }

\* C5 (partial-failure containment): a failed copy is recorded with its path
\* and never ends the run with an error; every path the loop has been through
\* is either applied or failed; a run that returned has been through every
\* path of new + changed; and an applied path holds the template file.
C5_FailureContained ==
  \A r \in Runs :
    /\ (failed[r] # {} /\ pc[r] = "done") => status[r] \in {"return", "killed"}
    /\ idx[r] > 0 =>
         /\ applied[r] \cup failed[r] = Attempted(r)
         /\ applied[r] \cap failed[r] = {}
         /\ updated_count[r] = Cardinality(applied[r])
    /\ (status[r] = "return" /\ answer[r] = "yes") => idx[r] = Len(Plan(files[r])) + 1
    /\ Latest(r) => \A p \in applied[r] : inst[p] = tmpl[p]

\* A run returned after a copy failed and a later copy of the same run was applied.
C5_Witness ==
  \E r \in Runs :
    /\ status[r] = "return"
    /\ \E i, j \in 1..Len(Plan(files[r])) :
         /\ i < j
         /\ Plan(files[r])[i] \in failed[r]
         /\ Plan(files[r])[j] \in applied[r]

\* create_backup raised in run r: the run ended with an error after a "yes".
BackupRaised(r) == pc[r] = "done" /\ status[r] = "raised" /\ answer[r] = "yes"

\* C6 (backup failure is fatal): a run whose create_backup raised ended with
\* that error, never entered the apply loop and wrote nothing; and a run that
\* entered the apply loop has a backup directory that holds the instance as
\* it was when create_backup was called.
C6_BackupFailureFatal ==
  \A r \in Runs :
    /\ BackupRaised(r) =>
         /\ idx[r] = 0 /\ written[r] = {} /\ applied[r] = {} /\ failed[r] = {}
         /\ backup_dir[r] = NoBackup
         /\ Latest(r) => inst = pre[r]
    /\ idx[r] > 0 =>
         /\ backup_dir[r] # NoBackup
         /\ backups[backup_dir[r]] = snap[r]

\* create_backup raised because an earlier run's backup has the same name.
C6_Witness ==
  \E r, q \in Runs :
    /\ q < r
    /\ BackupRaised(r)
    /\ backup_dir[q] = now
    /\ backups[now] = snap[q]

\* C7 as claimed (idempotence after any first run): every run after the
\* first finds new and changed empty and writes nothing.
C7_SecondRunIdle ==
  \A r \in Runs :
    (r > 1 /\ Categorized(r)) =>
      /\ files[r].new = <<>> /\ files[r].changed = <<>>
      /\ written[r] = {} /\ backup_dir[r] = NoBackup

\* The run before r returned with every path of its new + changed applied
\* (or with nothing to apply).
AppliedInFull(q) == pc[q] = "done" /\ status[q] = "return" /\ failed[q] = {}

\* C7 as amended (idempotence after a complete run): a run that follows a run
\* which returned with no failed copy classifies every template file as
\* unchanged or never_update, asks nothing, makes no backup and writes nothing.
C7_IdempotentAfterFullApply ==
  \A r \in Runs :
    (r > 1 /\ pc[r] # "idle" /\ AppliedInFull(r - 1)) =>
      /\ ~files[r].raised
      /\ files[r].new = <<>> /\ files[r].changed = <<>>
      /\ Range(files[r].unchanged) \cup Range(files[r].never_update) = Files(tmpl)
      /\ pc[r] = "done" /\ status[r] = "return"
      /\ asked[r] = 0 /\ written[r] = {} /\ backup_dir[r] = NoBackup
      /\ Latest(r) => inst = pre[r] /\ backups = preBackups[r]

\* A run followed a run that had applied a new and a changed file.
C7_Witness ==
  \E r \in Runs :
    /\ r > 1 /\ pc[r] = "done" /\ AppliedInFull(r - 1)
    /\ Range(files[r - 1].new) \cap applied[r - 1] # {}
    /\ Range(files[r - 1].changed) \cap applied[r - 1] # {}

\* Two nodes are the same kind of entry with the same bytes.
SameBytes(a, b) == a.kind = b.kind /\ a.content = b.content

\* C8 (well-defined partial state): from the first iteration of the apply
\* loop on, until the next run starts, every path of the instance holds the
\* bytes it held when the backup was taken, which the backup holds, or the
\* bytes of the template file.
C8_OldOrTemplate ==
  \A r \in Runs :
    (idx[r] > 0 /\ Latest(r)) =>
      \A p \in FilePaths :
        \/ /\ SameBytes(inst[p], snap[r][p])
           /\ SameBytes(inst[p], backups[backup_dir[r]][p])
        \/ SameBytes(inst[p], tmpl[p])

\* C9 (policy precedence): in every classification a run obtained, a template
\* file whose filename is in NEVER_UPDATE is in never_update and in no other
\* list, whatever the instance holds at its path; and where the instance had
\* no entry at that path when the run started, it has none afterwards.
C9_PolicyPrecedence ==
  \A r \in Runs :
    Categorized(r) =>
      \A p \in PolicyPaths :
        is_file(tmpl, p) =>
          /\ p \in Range(files[r].never_update)
          /\ p \notin Range(files[r].new) \cup Range(files[r].changed)
                        \cup Range(files[r].unchanged)
          /\ ~exists(pre[r], p) => ~exists(inst, p)

\* A run created hooks/ for a new hook script while the template's
\* hooks/.env.local, missing in the instance, stayed missing.
C9_Witness ==
  \E r \in Runs :
    /\ status[r] = "return"
    /\ <<"hooks", "pre-build.sh">> \in applied[r]
    /\ ~exists(pre[r], <<"hooks">>)
    /\ is_file(tmpl, <<"hooks", ".env.local">>)
    /\ <<"hooks", ".env.local">> \in Range(files[r].never_update)
    /\ ~exists(inst, <<"hooks", ".env.local">>)

\* C10 (content classification): whenever categorize_files returns, a template
\* file whose filename is not in NEVER_UPDATE is in new iff the instance has
\* no entry at its path, in changed iff the instance has a file there with
\* other bytes, and in unchanged iff the instance has a file there with the
\* same bytes; the length of the file plays no part.
C10_ContentClassification ==
  LET f == categorize_files(tmpl, inst) IN
    (is_dir(tmpl, Root) /\ ~f.raised) =>
      \A p \in Files(tmpl) \ PolicyPaths :
        /\ p \in Range(f.new) <=> ~exists(inst, p)
        /\ p \in Range(f.changed) <=>
             (is_file(inst, p) /\ inst[p].content # tmpl[p].content)
        /\ p \in Range(f.unchanged) <=>
             (is_file(inst, p) /\ inst[p].content = tmpl[p].content)

\* A run classified an empty template file with an empty instance file as
\* unchanged, and a non-empty template file with an empty instance file as
\* changed.
C10_Witness ==
  \E r \in Runs : \E p, q \in FilePaths :
    /\ Categorized(r)
    /\ tmpl[p].content = <<>> /\ is_file(pre[r], p) /\ pre[r][p].content = <<>>
    /\ p \in Range(files[r].unchanged)
    /\ tmpl[q].content # <<>> /\ is_file(pre[r], q) /\ pre[r][q].content = <<>>
    /\ q \in Range(files[r].changed)

\* The classification of run r has nothing to apply.
UpToDate(r) == Categorized(r) /\ files[r].new = <<>> /\ files[r].changed = <<>>

\* C11 (up to date): a run whose classification has empty new and empty
\* changed has returned normally; it asked for no confirmation, made no
\* backup and wrote nothing: until the next run starts, the instance tree and
\* the backup directories are those the run found.
C11_UpToDateNoEffect ==
  \A r \in Runs :
    UpToDate(r) =>
      /\ pc[r] = "done" /\ status[r] = "return"
      /\ asked[r] = 0 /\ answer[r] = "none"
      /\ backup_dir[r] = NoBackup /\ idx[r] = 0
      /\ written[r] = {} /\ applied[r] = {} /\ failed[r] = {}
      /\ Latest(r) => inst = pre[r] /\ backups = preBackups[r]

\* A run was up to date while one never_update template file was missing in
\* the instance and another one differed from the instance's file.
C11_Witness ==
  \E r \in Runs : \E p, q \in Range(files[r].never_update) :
    /\ UpToDate(r) /\ Latest(r)
    /\ ~exists(inst, p)
    /\ is_file(inst, q) /\ inst[q].content # tmpl[q].content

\* The files that the tree holds and the template does not hold at the same
\* relative path.
InstanceOnly(t) == { p \in AllPaths : is_file(t, p) /\ ~is_file(tmpl, p) }

\* C12 (template-driven): a file that the instance held without a template
\* file at its path when run r started is in none of the four lists of the
\* run, was not written by the run, and is in the instance as the run found
\* it; so also where it is a plain file at the place of a directory of the
\* template.
C12_InstanceOnlyUntouched ==
  \A r \in Runs :
    pc[r] # "idle" =>
      \A p \in InstanceOnly(pre[r]) :
        /\ \A i \in 1..4 : p \notin Range(Lists(files[r])[i])
        /\ p \notin written[r]
        /\ inst[p] = pre[r][p]

\* A run returned whose copy of hooks/pre-build.sh failed on the plain file
\* hooks of the instance, which also held a file unknown to the template.
C12_Witness ==
  \E r \in Runs :
    /\ status[r] = "return"
    /\ <<"hooks">> \in InstanceOnly(pre[r])
    /\ <<"hooks", "pre-build.sh">> \in failed[r]
    /\ \E p \in FilePaths : p \in InstanceOnly(pre[r]) /\ ~exists(tmpl, p)

\* C13 (same-second snapshots): when a run is about to call create_backup on
\* an instance directory in a clock second in which an earlier run made its
\* backup, the call completes, with no failure on the environment's side, and
\* leaves the earlier backup as it is.
C13_SameSecondSnapshots ==
  \A r \in Runs :
    (pc[r] = "backup" /\ is_dir(inst, Root) /\ \E q \in Runs : backup_dir[q] = now) =>
      LET b == create_backup(inst, backups[now], "ok", Root) IN
        /\ b.ok
        /\ b.dir = backups[now]

\* The backup directories that have come into being since run r started.
BackupsMade(r) ==
  { t \in Seconds : exists(backups[t], Root) /\ ~exists(preBackups[r][t], Root) }

\* The user confirmed the plan of run r and the call of create_backup is over.
ConfirmedPastBackup(r) == answer[r] = "yes" /\ pc[r] # "backup"

\* C14 as claimed (backup immutability): until the next run starts, a run has
\* made at most one backup directory, and exactly one once the user confirmed
\* and create_backup is over; and the backup directories the run found are
\* as it found them.
C14_ExactlyOneWhenConfirmed ==
  \A r \in Runs :
    Latest(r) =>
      /\ Cardinality(BackupsMade(r)) <= 1
      /\ ConfirmedPastBackup(r) => Cardinality(BackupsMade(r)) = 1
      /\ \A t \in Seconds :
           exists(preBackups[r][t], Root) => backups[t] = preBackups[r][t]

\* C14 as amended (backup immutability): until the next run starts, a run has
\* made at most one backup directory; a run whose create_backup returned has
\* made exactly one, a copy of the instance as it was at the call, and a
\* confirmed run whose create_backup raised has ended with that error.  And
\* in every step: a backup directory that exists stays as it is, and a step
\* that makes a backup directory leaves the instance directory as it is (the
\* backup is beside the instance, not a part of it).
C14_BackupImmutable ==
  /\ [](\A r \in Runs :
          Latest(r) =>
            /\ Cardinality(BackupsMade(r)) <= 1
            /\ backup_dir[r] # NoBackup =>
                 /\ BackupsMade(r) = {backup_dir[r]}
                 /\ backups[backup_dir[r]] = snap[r]
            /\ (ConfirmedPastBackup(r) /\ backup_dir[r] = NoBackup) => BackupRaised(r))
  /\ [][/\ \A t \in Seconds : exists(backups[t], Root) => backups'[t] = backups[t]
        /\ backups' # backups => inst' = inst]_vars

\* Two runs have each made a backup, of two different states of the instance,
\* and the second run has written to the instance since.
C14_Witness ==
  \E q, r \in Runs :
    /\ q < r
    /\ backup_dir[q] # NoBackup /\ backup_dir[r] # NoBackup
    /\ backup_dir[q] # backup_dir[r]
    /\ snap[q] # snap[r]
    /\ written[r] # {}

\* C15 (fatal pre-run errors): a run that found no instance directory or no
\* templates directory has ended with typer.Exit(1) and has no classification;
\* it asked for no confirmation, made no backup and wrote nothing; and the
\* error it printed is that of check_initialized whenever the instance
\* directory was missing, also where the templates directory is missing too.
C15_FatalPreRunErrors ==
  \A r \in Runs :
    pc[r] # "idle" =>
      /\ (~exists(pre[r], Root) \/ ~exists(tmpl, Root)) =>
           /\ pc[r] = "done" /\ status[r] = "Exit1"
           /\ files[r] = EmptyResult
           /\ asked[r] = 0 /\ answer[r] = "none"
           /\ backup_dir[r] = NoBackup /\ idx[r] = 0
           /\ written[r] = {} /\ applied[r] = {} /\ failed[r] = {}
           /\ Latest(r) => inst = pre[r] /\ backups = preBackups[r]
      /\ ~exists(pre[r], Root) => report[r].error = "not_initialized"
      /\ (exists(pre[r], Root) /\ ~exists(tmpl, Root)) =>
           report[r].error = "templates_not_found"
      /\ status[r] = "Exit1" <=> report[r].error # "none"

\* A run ended where both the instance directory and the templates directory
\* are missing.
C15_Witness ==
  \E r \in Runs :
    /\ pc[r] = "done"
    /\ ~exists(pre[r], Root)
    /\ ~exists(tmpl, Root)

\* The reference scenario: the template has five files, one of them with a
\* NEVER_UPDATE filename; the tree holds three files, all of them template
\* files with other filenames, one of them with other bytes than the
\* template's.
ReferenceScenario(claude) ==
  /\ is_dir(claude, Root)
  /\ Cardinality(Files(tmpl)) = 5
  /\ Cardinality(Files(tmpl) \cap PolicyPaths) = 1
  /\ Cardinality(Files(claude)) = 3
  /\ Files(claude) \subseteq Files(tmpl) \ PolicyPaths
  /\ Cardinality({ p \in Files(claude) : claude[p].content # tmpl[p].content }) = 1

\* C16 (reference scenario): a run that found the reference scenario has one
\* new path (the template file missing in the instance), one changed path
\* (the file with other bytes), two unchanged paths and one never_update
\* path, and asks for 2 updates; once confirmed and over, where no file
\* operation failed, it has applied exactly these two paths and failed on
\* none, has not written the never_update path, and its backup holds the
\* three files the instance had, and no other file.
C16_ReferenceScenario ==
  \A r \in Runs :
    (pc[r] # "idle" /\ ReferenceScenario(pre[r])) =>
      /\ Categorized(r)
      /\ Len(files[r].new) = 1 /\ ~exists(pre[r], files[r].new[1])
      /\ Len(files[r].changed) = 1
      /\ pre[r][files[r].changed[1]].content # tmpl[files[r].changed[1]].content
      /\ Len(files[r].unchanged) = 2
      /\ Len(files[r].never_update) = 1
      /\ asked[r] = 1 /\ total_updates[r] = 2
      /\ (answer[r] = "yes" /\ pc[r] = "done") =>
           /\ status[r] = "return"
           /\ applied[r] = {files[r].new[1], files[r].changed[1]}
           /\ failed[r] = {}
           /\ updated_count[r] = 2 /\ report[r].updated = 2
           /\ written[r] = applied[r]
           /\ \A p \in applied[r] : inst[p] = tmpl[p]
           /\ inst[files[r].never_update[1]] = pre[r][files[r].never_update[1]]
           /\ Files(backups[backup_dir[r]]) = Files(pre[r])
           /\ Cardinality(Files(backups[backup_dir[r]])) = 3
           /\ \A p \in Files(pre[r]) : backups[backup_dir[r]][p] = pre[r][p]

\* A confirmed run on the reference scenario has returned; the new file lies
\* in a directory the instance did not have.
C16_Witness ==
  \E r \in Runs :
    /\ ReferenceScenario(pre[r])
    /\ answer[r] = "yes" /\ status[r] = "return"
    /\ Cardinality(applied[r]) = 2
    /\ ~exists(pre[r], <<"hooks">>) /\ is_dir(inst, <<"hooks">>)

\* C17 (single batch confirmation): every run asks for confirmation at most
\* once, and once iff its new + changed is not empty; the count it shows is
\* |new| + |changed| of the classification of the instance it found; while
\* the question is open, and in a run without the answer "yes", there is no
\* backup of the run and no write of the run; and every step that changes
\* the instance or a backup directory is a step of a run that has asked and
\* got the answer "yes".
C17_SingleConfirmation ==
  /\ [](\A r \in Runs :
          /\ asked[r] <= 1
          /\ pc[r] # "idle" => (asked[r] = 1 <=> Plan(files[r]) # <<>>)
          /\ asked[r] = 1 =>
               /\ files[r] = categorize_files(tmpl, pre[r])
               /\ total_updates[r] = Len(files[r].new) + Len(files[r].changed)
          /\ answer[r] # "none" => asked[r] = 1
          /\ answer[r] # "yes" =>
               /\ backup_dir[r] = NoBackup /\ idx[r] = 0
               /\ written[r] = {} /\ applied[r] = {} /\ failed[r] = {}
               /\ Latest(r) => inst = pre[r] /\ backups = preBackups[r])
  /\ [][(inst' # inst \/ backups' # backups) =>
          \E r \in Runs :
            /\ asked[r] = 1 /\ answer[r] = "yes"
            /\ pc[r] \in {"backup", "apply"}
            /\ <<pc'[r], idx'[r]>> # <<pc[r], idx[r]>>]_vars

\* A run asked once about two updates, a new and a changed file, got "yes",
\* made its backup and wrote both files.
C17_Witness ==
  \E r \in Runs :
    /\ asked[r] = 1 /\ answer[r] = "yes"
    /\ total_updates[r] = 2
    /\ Len(files[r].new) = 1 /\ Len(files[r].changed) = 1
    /\ backup_dir[r] # NoBackup
    /\ Cardinality(written[r]) = 2

\* C18 (apply postcondition): until the next run starts, every path whose
\* copy succeeded in run r holds a file with the bytes and the permission
\* bits of the template file, below directories all the way up; the paths
\* the run classified as unchanged were not written and are as the run found
\* them; and no step changes the templates directory.
C18_ApplyPostcondition ==
  /\ [](\A r \in Runs :
          Latest(r) =>
            /\ \A p \in applied[r] :
                 /\ is_file(inst, p) /\ is_file(tmpl, p)
                 /\ inst[p].content = tmpl[p].content
                 /\ inst[p].mode = tmpl[p].mode
                 /\ \A a \in Ancestors(p) : is_dir(inst, a)
                 /\ p \in Range(Plan(files[r]))
            /\ \A p \in Range(files[r].unchanged) :
                 /\ p \notin written[r]
                 /\ inst[p] = pre[r][p])
  /\ [][tmpl' = tmpl]_vars

\* A run copied the executable hooks/pre-build.sh into an instance that had
\* no hooks directory, next to an unchanged file.
C18_Witness ==
  \E r \in Runs :
    /\ Latest(r)
    /\ <<"hooks", "pre-build.sh">> \in applied[r]
    /\ inst[<<"hooks", "pre-build.sh">>].mode = ModeExec
    /\ ~exists(pre[r], <<"hooks">>)
    /\ files[r].unchanged # <<>>

\* C19 (review list): the list that a run prints for review with its final
\* report holds exactly the paths with a filename in WARN_BEFORE_UPDATE whose
\* copy succeeded in the run, and so no path whose copy failed.
C19_ReviewListApplied ==
  \A r \in Runs :
    report[r].complete =>
      /\ Range(report[r].review) = { p \in applied[r] : Name(p) \in WARN_BEFORE_UPDATE }
      /\ Range(report[r].review) \cap failed[r] = {}

\* For the categories new and changed of run r: the numbers of paths whose
\* copy succeeded and of paths whose copy failed.
OutcomeCounts(r) ==
  [c \in {"new", "changed"} |->
     [applied |-> Cardinality(applied[r] \cap Range(files[r][c])),
      failed |-> Cardinality(failed[r] \cap Range(files[r][c]))]]

\* C20 (report accounting): in a run that printed its final report, every
\* path of new + changed is either applied or failed, so that in each
\* category applied + failed is the size of the category; the number the
\* report gives is the number of copies that succeeded; and the report gives
\* the numbers of applied and failed files of each category: two runs with
\* the same report have the same numbers.
C20_ReportAccounting ==
  /\ \A r \in Runs :
       report[r].complete =>
         /\ applied[r] \cap failed[r] = {}
         /\ applied[r] \cup failed[r] = Range(Plan(files[r]))
         /\ \A c \in {"new", "changed"} :
              OutcomeCounts(r)[c].applied + OutcomeCounts(r)[c].failed = Len(files[r][c])
         /\ report[r].updated = Cardinality(applied[r])
  /\ \A q, r \in Runs :
       (report[q].complete /\ report[r].complete /\ report[q].updated = report[r].updated) =>
         OutcomeCounts(q) = OutcomeCounts(r)

\* C21 (declined re-initialization): a call of init_project in which the
\* user declined the overwrite has ended with exit code 1, and every path of
\* the project directories is as the call found it.
C21_DeclinedReinit ==
  init_answer = "no" =>
    /\ init_status = "Exit1"
    /\ init_pc \in {"done", "idle"}
    /\ init_pc = "done" => fs = init_pre
    /\ exists_at(init_pre, init_args.project_dir \o claude_dir)

\* The user declined the overwrite of a .claude-yolo that an earlier call had
\* filled and to which the user had added a file.
C21_Witness ==
  /\ init_answer = "no" /\ init_pc = "done"
  /\ init_calls = 2
  /\ fs[init_args.project_dir \o claude_dir \o <<"Dockerfile">>] = "file"
  /\ fs[init_args.project_dir \o claude_dir \o <<"MARKER">>] = "file"

\* The .claude-yolo directory of the current call of init_project.
InitDir == init_args.project_dir \o claude_dir

\* The user confirmed the overwrite of a .claude-yolo directory.
ConfirmedReinit == init_answer = "yes" /\ init_pre[InitDir] = "dir"

\* The paths below `dir` at which a call of init_project with this package
\* puts an entry.
Produced(dir, minimal) ==
  LET Skipped(n) == minimal /\ n \in MINIMAL_EXCLUDE IN
  { dir \o <<n>> : n \in MadeNames }
    \cup { dir \o <<n>> :
             n \in { n \in TemplateNames :
                       \/ package.entries[n] = "dir"
                       \/ package.entries[n] = "file" /\ ~Skipped(n) } }
    \cup { dir \o <<d, ChildName(d)>> :
             d \in { n \in TemplateNames : package.entries[n] = "dir" /\ ~Skipped(n) } }
    \cup { dir \o <<"logs", d>> : d \in log_subdirs }

\* C22 (confirmed re-initialization): once the user has confirmed the
\* overwrite of a .claude-yolo directory, the directory is emptied before the
\* first template is copied, and no file of the user's is in it as long as the
\* call runs and when it has ended; when the call has returned, the directory
\* holds only entries that the initialization makes, and the core files and
\* directories of the templates are there.
C22_ConfirmedReinitReplaces ==
  (ConfirmedReinit /\ init_pc \in {"copy", "done"}) =>
    /\ fs[InitDir] = "dir"
    /\ \A n \in UserNames : fs[InitDir \o <<n>>] = "absent"
    /\ (init_pc = "copy" /\ init_idx = 1) =>
         \A p \in ProjectPaths : (Below(p, InitDir) /\ p # InitDir) => fs[p] = "absent"
    /\ \A p \in ProjectPaths :
         (Below(p, InitDir) /\ p # InitDir /\ exists_at(fs, p)) =>
            p \in Produced(InitDir, init_args.minimal)
    /\ init_status = "return" =>
         /\ \A n \in CoreFiles : fs[InitDir \o <<n>>] = "file"
         /\ \A n \in CoreDirs : fs[InitDir \o <<n>>] = "dir"

\* A confirmed re-initialization returned; the old directory held a file of
\* the user's and the Dockerfile of an earlier initialization.
C22_Witness ==
  /\ ConfirmedReinit
  /\ init_pc = "done" /\ init_status = "return"
  /\ init_pre[InitDir \o <<"MARKER">>] = "file"
  /\ init_pre[InitDir \o <<"Dockerfile">>] = "file"
  /\ fs[InitDir \o <<"Dockerfile">>] = "file"

\* C23 (minimal initialization): when init_project(project_dir, minimal=True)
\* has returned, .claude-yolo has no entry tailscale, openvpn or cloudflared,
\* and has the core files and directories of the templates.
C23_MinimalExcludes ==
  (init_pc = "done" /\ init_status = "return" /\ init_args.minimal) =>
    /\ \A n \in MINIMAL_EXCLUDE : ~exists_at(fs, InitDir \o <<n>>)
    /\ \A n \in CoreFiles \cup CoreDirs : exists_at(fs, InitDir \o <<n>>)

\* C24 (initialization layout): when init_project has returned on a project
\* directory that had no .claude-yolo, .claude-yolo is a directory, the
\* project directory has logs with the subdirectories commands, claude, git
\* and safety, and it has the files .env and .gitignore.
C24_ProjectLayout ==
  (init_pc = "done" /\ init_status = "return"
     /\ ~exists_at(init_pre, InitDir)) =>
    LET project_dir == init_args.project_dir IN
      /\ fs[InitDir] = "dir"
      /\ fs[project_dir \o <<"logs">>] = "dir"
      /\ \A d \in log_subdirs : fs[project_dir \o <<"logs", d>>] = "dir"
      /\ fs[project_dir \o <<".env">>] = "file"
      /\ fs[project_dir \o <<".gitignore">>] = "file"

\* C25 (initialized check): for every project directory, check_initialized
\* returns the directory's .claude-yolo iff the directory itself has that
\* entry, and ends with exit code 1 otherwise, whatever the parent
\* directory holds; and when init_project has returned, check_initialized
\* succeeds on its project directory.
C25_InitializedCheck ==
  /\ \A d \in ProjectDirs :
       LET c == check_initialized(fs, d) IN
         /\ c.exit \in {0, 1}
         /\ c.exit = 0 <=> exists_at(fs, d \o claude_dir)
         /\ c.exit = 0 => c.path = d \o claude_dir
  /\ (init_pc = "done" /\ init_status = "return") =>
       check_initialized(fs, init_args.project_dir) =
         [exit |-> 0, path |-> init_args.project_dir \o claude_dir]

\* init_project has returned on the parent directory, and the subdirectory
\* has no .claude-yolo.
C25_Witness ==
  /\ init_pc = "done" /\ init_status = "return"
  /\ init_args.project_dir = <<>>
  /\ ~exists_at(init_pre, claude_dir)
  /\ check_initialized(fs, <<>>).exit = 0
  /\ check_initialized(fs, <<"subdir">>).exit = 1

\* C26 (order independence of the apply phase): the paths of new + changed
\* are pairwise distinct, and when every copy is done, in whatever order and
\* interleaving of their steps, the instance tree and the set of failed paths
\* are those of the sequential pass, new first, then changed.
C26_OrderIndependent ==
  /\ Cardinality(Range(OrdPlan)) = Len(OrdPlan)
  /\ (\A p \in DOMAIN ord_stage : ord_stage[p] = "done") =>
       LET seq == apply_pass(tmpl, ord_start, OrdPlan, ord_env) IN
         /\ inst = seq.tree
         /\ ord_failed = seq.failed

\* Two copies into the same missing directory are done; creating the
\* directory failed for the first path of the list, not for the second.
C26_Witness ==
  /\ Len(OrdPlan) = 2
  /\ \A p \in DOMAIN ord_stage : ord_stage[p] = "done"
  /\ \A p \in Range(OrdPlan) : Parent(p) = <<"hooks">>
  /\ ~exists(ord_start, <<"hooks">>)
  /\ ord_failed = {OrdPlan[1]}
  /\ ord_env[OrdPlan[1]].outcome = "mkdir_fail"
  /\ is_file(inst, OrdPlan[2])

\* C27 (no mutual exclusion): a run that has not started can start whatever
\* the other runs are doing, be they at their confirmation, at their backup
\* or in their apply loop: nothing makes it wait for them.
C27_NoMutualExclusion ==
  \A r \in Runs :
    (pc[r] = "idle" /\ \A q \in Runs : q < r => pc[q] # "idle") =>
      ENABLED ConcurrentBegin(r)

\* Both runs are in their apply loop at once, both have copied the same
\* path, and the backup of the second run was taken after the first run had
\* written that path: it holds the template's bytes, not those the instance
\* had when the runs started.
C27_Witness ==
  /\ pc[1] = "apply" /\ pc[2] = "apply"
  /\ answer[1] = "yes" /\ answer[2] = "yes"
  /\ backup_dir[1] # NoBackup /\ backup_dir[2] # NoBackup
  /\ \E p \in applied[1] \cap applied[2] :
       /\ is_file(pre[1], p) /\ pre[2][p] = pre[1][p]
       /\ pre[1][p].content # tmpl[p].content
       /\ snap[1][p] = pre[1][p]
       /\ snap[2][p] = tmpl[p]
       /\ backups[backup_dir[2]][p] = tmpl[p]

\* The event e is in the log of checkout_repo.
Logged(e) == \E i \in 1..Len(co_log) : co_log[i] = e

\* Every occurrence of event a in the log of checkout_repo comes after an
\* occurrence of event b.
After(a, b) ==
  \A i \in 1..Len(co_log) : co_log[i] = a => \E j \in 1..(i - 1) : co_log[j] = b

\* C28 (checkout never deletes without authorization): a target directory
\* found by checkout_repo is gone or replaced only with force or after the
\* user confirmed the overwrite; with no_interactive and without force, and
\* after a declined confirmation, the call ends with exit code 1, the target
\* is as it was found and git clone was not invoked; after a failed clone
\* the call has ended with exit code 1 and init_project was not called.
C28_NoUnauthorizedRemoval ==
  /\ (co_pc # "idle" /\ co_args.found = "old_dir" /\ co_target # "old_dir") =>
       co_args.force \/ Logged("overwrite:yes")
  /\ Logged("rmtree") => co_args.force \/ Logged("overwrite:yes")
  /\ (co_pc # "idle" /\ co_args.found # "absent"
        /\ co_args.no_interactive /\ ~co_args.force) =>
       /\ co_pc = "done" /\ co_status = "Exit1"
       /\ co_target = co_args.found
       /\ ~Logged("git_clone") /\ ~Logged("rmtree")
  /\ Logged("overwrite:no") =>
       /\ co_pc = "done" /\ co_status = "Exit1"
       /\ co_target = co_args.found
       /\ ~Logged("git_clone") /\ ~Logged("rmtree")
  /\ Logged("clone_failed") =>
       /\ co_pc = "done" /\ co_status = "Exit1"
       /\ ~Logged("init_project") /\ ~Logged("build_image")

\* checkout_repo found a directory at the target and was called with
\* no_interactive and without force.
C28_Witness ==
  /\ co_pc = "done"
  /\ co_args.found = "old_dir"
  /\ co_args.no_interactive /\ ~co_args.force
  /\ co_status = "Exit1"
  /\ co_target = "old_dir"

\* The steps of _run_initialization_flow come in the order init, build,
\* start, each only after the step before it was accepted (asked and
\* answered yes, unless auto) and returned.
FlowStepsInOrder ==
  InFlow =>
    /\ After("build_image", "init_returned")
    /\ After("init_returned", "init_project")
    /\ After("run_container", "build_returned")
    /\ ~co_args.auto_start => /\ After("init_project", "init:yes")
                              /\ After("build_image", "build:yes")
    /\ (Logged("init:no") \/ Logged("init_raised")) => ~Logged("build_image")
    /\ (Logged("build:no") \/ Logged("build_raised")) => ~Logged("run_container")

\* C29 (initialization flow ordering): the steps of the flow run in the
\* order init, build, start, a step only after the one before it was
\* accepted and returned, no step after a declined or failed one; and with
\* auto no confirmation is requested from the moment the flow starts.
C29_FlowOrdering ==
  /\ FlowStepsInOrder
  /\ co_args.auto_start =>
       \A i \in 1..Len(co_log) :
         co_log[i] \in {"confirm:init", "confirm:build", "confirm:start",
                        "confirm:overwrite_config"} =>
           \E j \in (i + 1)..Len(co_log) : co_log[j] = "chdir"

\* The log of run_container holds an entry of kind ev for the stage.
Seen(ev, stage) == \E i \in 1..Len(ct_log) : ct_log[i].ev = ev /\ ct_log[i].stage = stage

\* The stages after the stage with the given name can go ahead: the files
\* that docker-compose needs for them are there.
CanStart(stage) ==
  docker_compose_cmd(ct_project, stage = "up" /\ ct_args.mcp) = "run"

\* C30 (container start ordering): the subprocesses of run_container are
\* started in the order pre-build hook, build, post-build hook, pre-start
\* hook, compose up, none twice; the post-build hook is started only after
\* the build ended with exit code 0; after a build that ended with a
\* non-zero exit code the call has ended with that exit code, and neither
\* the post-build hook, the pre-start hook nor compose up is started; after
\* a hook that exited non-zero there is a warning and the next docker-compose
\* command is started wherever its files are there.
C30_StartOrdering ==
  /\ \A i, j \in 1..Len(ct_log) :
       (i < j /\ ct_log[i].ev \in {"hook", "compose"} /\ ct_log[j].ev \in {"hook", "compose"})
         => StageIndex(ct_log[i].stage) < StageIndex(ct_log[j].stage)
  /\ \A i \in 1..Len(ct_log) :
       (ct_log[i].ev = "hook" /\ ct_log[i].stage = "post-build") =>
         \E j \in 1..(i - 1) : ct_log[j] = Event("code", "build", 0)
  /\ \A i \in 1..Len(ct_log) :
       (ct_log[i].ev = "code" /\ ct_log[i].stage = "build" /\ ct_log[i].code # 0) =>
         /\ ct_pc = "done"
         /\ ct_status = Exited(ct_log[i].code)
         /\ i = Len(ct_log)
  /\ ct_status = Raised => ct_log[Len(ct_log)].ev = "error"
  /\ \A i \in 1..Len(ct_log) :
       (ct_log[i].ev = "code" /\ ct_log[i].stage \in HookStages /\ ct_log[i].code # 0) =>
         /\ i < Len(ct_log)
         /\ ct_log[i + 1] = Event("warn", ct_log[i].stage, 0)
  /\ (Seen("warn", "pre-build") /\ CanStart("build")) => Seen("compose", "build")
  /\ (Seen("warn", "post-build") /\ "pre-start" \in ct_project.hooks) =>
       Seen("hook", "pre-start")
  /\ (Seen("warn", "post-build") /\ CanStart("up")) =>
       Seen("hook", "pre-start") \/ Seen("compose", "up")
  /\ (Seen("warn", "pre-start") /\ CanStart("up")) => Seen("compose", "up")

\* run_container with build_first has started the three hooks and the two
\* docker-compose commands; the pre-build hook and the pre-start hook exited
\* non-zero.
C30_Witness ==
  /\ ct_args.build_first
  /\ [i \in 1..Len(ct_log) |-> ct_log[i].stage] =
       <<"pre-build", "pre-build", "pre-build", "build", "build",
         "post-build", "post-build", "pre-start", "pre-start", "pre-start", "up">>
  /\ Seen("warn", "pre-build") /\ Seen("warn", "pre-start")
  /\ ct_pc = "up"

====
